---- MODULE Spec2Model ----
(***************************************************************************)
(* PeggleRogue: the procedural level generator (src/src/levelGenerator.js) *)
(* and the level/completion logic of the game (src/src/game.js).           *)
(*                                                                         *)
(* Lengths are fixed-point integers in hundredths of a pixel (48.2 px is   *)
(* 4820); a product by a decimal factor is rounded down to that grid.      *)
(* Math.random() is a value r/1000 with r in 0..999, the rc-th draw of one *)
(* call being Rand(seed, rc): the random outcome of a call is its seed,    *)
(* and each place that draws has its own index rc, whether or not a run    *)
(* reaches it.                                                             *)
(***************************************************************************)
EXTENDS Integers, Sequences, FiniteSets

\* ------------------------------------------------------------------ bounds
MaxLevel == 12
NumSeeds == 8

\* ------------------------------------------------------- program constants
CANVAS_WIDTH == 800
CANVAS_HEIGHT == 650
PEG_RADIUS == 10
minPegSpacing == 50
maxPatterns == 4
horizontalMargin == 100
minPegCountPerLevel == 35
pegIncreasePerLevel == 5
maxPegCount == 120

Px(v) == v * 100
canvasWidth == Px(CANVAS_WIDTH)
canvasHeight == Px(CANVAS_HEIGHT)
pegRadius == Px(PEG_RADIUS)
margin == Px(horizontalMargin)

Levels == 1..MaxLevel
Seeds == 0..NumSeeds

Min(a, b) == IF a < b THEN a ELSE b
Max(a, b) == IF a > b THEN a ELSE b
Abs(a) == IF a < 0 THEN -a ELSE a
\* ------------------------------------------------------------ Math.random
\* The i-th value Math.random() returns in a call whose random outcome is
\* `seed`, in thousandths: 0 <= Rand < 1000. Outcome 0 is the one in which
\* every draw returns the same number.
Rand(seed, i) ==
    IF seed = 0 THEN 500 ELSE
    LET h1 == ((i + 1) * 7919 + seed * 104729) % 10007
        h2 == (h1 * h1 + 31 * seed + 7) % 10007
        h3 == (h2 * h2 + h1) % 10007
    IN  h3 % 1000

\* Math.floor(Math.random() * k) for the draw r
RandInt(r, k) == (r * k) \div 1000
\* lo + Math.random() * (hi - lo) for the draw r
RandBetween(r, lo, hi) == lo + (r * (hi - lo)) \div 1000

\* ------------------------------------------------------ level parameters
colorProgression == << [level |-> 1, colors |-> 4],
                       [level |-> 3, colors |-> 6],
                       [level |-> 11, colors |-> 8] >>

\* getAvailableColors: the colors of the last progression entry whose level
\* is <= levelNumber (the loop breaks at the first entry above it).
getAvailableColors(levelNumber) ==
    LET reached == { i \in 1..Len(colorProgression) :
                       \A j \in 1..i : levelNumber >= colorProgression[j].level }
    IN  IF reached = {} THEN 4
        ELSE colorProgression[CHOOSE i \in reached : \A j \in reached : j <= i].colors

getMinimumPegCount(levelNumber) ==
    Min(minPegCountPerLevel + (levelNumber - 1) * pegIncreasePerLevel, maxPegCount)

\* Math.max(minPegSpacing - levelNumber * 1.8, pegRadius * 2.3)
LevelSpacing(levelNumber) ==
    Max(Px(minPegSpacing) - levelNumber * 180, (pegRadius * 23) \div 10)


\* ------------------------------------------------------ pattern catalog
\* A function object: fn is the method, obj the identity of the object.
\* this.createXPattern is the prototype's own object (obj 0); every
\* Function.prototype.bind call returns a new function object.
Method(name) == [fn |-> name, obj |-> 0]

PatternNames == << "grid", "checkerboard", "diamond", "spiral", "tunnel", "wave",
                   "vortex", "concentric", "zigzag", "hourglass", "maze",
                   "random", "clustered" >>

MethodOf(name) ==
    CASE name = "grid" -> "createGridPattern"
      [] name = "checkerboard" -> "createCheckerboardPattern"
      [] name = "diamond" -> "createDiamondPattern"
      [] name = "spiral" -> "createSpiralPattern"
      [] name = "tunnel" -> "createTunnelPattern"
      [] name = "wave" -> "createWavePattern"
      [] name = "vortex" -> "createVortexPattern"
      [] name = "concentric" -> "createConcentricPattern"
      [] name = "zigzag" -> "createZigzagPattern"
      [] name = "hourglass" -> "createHourglassPattern"
      [] name = "maze" -> "createMazePattern"
      [] name = "random" -> "createRandomPattern"
      [] name = "clustered" -> "createClusteredPattern"


\* this.patterns, built by the constructor: name -> method.bind(this)
patterns == [ name \in { PatternNames[i] : i \in 1..Len(PatternNames) } |->
                [fn |-> MethodOf(name),
                 obj |-> CHOOSE i \in 1..Len(PatternNames) : PatternNames[i] = name] ]

patternDifficulty(name) ==
    CASE name = "grid" -> 1
      [] name = "checkerboard" -> 2
      [] name = "random" -> 3
      [] name = "diamond" -> 4
      [] name = "wave" -> 5
      [] name = "clustered" -> 6
      [] name = "tunnel" -> 7
      [] name = "spiral" -> 8
      [] name = "vortex" -> 10
      [] name = "concentric" -> 6
      [] name = "zigzag" -> 7
      [] name = "hourglass" -> 8
      [] name = "maze" -> 9
      [] OTHER -> 5

\* Object.keys(this.patterns) filtered by difficulty <= difficultyFactor + 2
selectPatternsByDifficulty(difficultyFactor) ==
    SelectSeq(PatternNames, LAMBDA p : patternDifficulty(p) <= difficultyFactor + 2)

\* ------------------------------------------------------------- sections
playAreaTop == Px(120)
playAreaBottom == canvasHeight - Px(80)
playAreaHeight == playAreaBottom - playAreaTop
playableWidth == canvasWidth - margin * 2

Section(x, y, w, h) == [x |-> x, y |-> y, width |-> w, height |-> h]

\* r * v for a draw r (thousandths), rounded down
Frac(r, v) == (r * v) \div 1000
\* Math.random() * j * 2 - j
Jitter(r, j) == Frac(r, j * 2) - j


\* count === 2: one draw for the orientation, one for the divider, one for
\* the gap of 30 + Math.random() * 20 pixels
TwoSections(seed, rc) ==
    LET useVerticalSplit == Rand(seed, rc) > 500
        gap == Px(30) + Frac(Rand(seed, rc + 2), Px(20))
        dividerY == playAreaTop + playAreaHeight \div 2
                      + Jitter(Rand(seed, rc + 1), playAreaHeight \div 10)
        dividerX == margin + playableWidth \div 2
                      + Jitter(Rand(seed, rc + 1), playableWidth \div 10)
    IN  IF useVerticalSplit
        THEN << Section(margin, playAreaTop, playableWidth,
                        dividerY - playAreaTop - gap \div 2),
                Section(margin, dividerY + gap \div 2, playableWidth,
                        playAreaBottom - dividerY - gap \div 2) >>
        ELSE << Section(margin, playAreaTop, dividerX - margin - gap \div 2,
                        playAreaHeight),
                Section(dividerX + gap \div 2, playAreaTop,
                        margin + playableWidth - dividerX - gap \div 2,
                        playAreaHeight) >>

\* case 0: grid layout with jitter; section i (0-based) takes the four draws
\* rc + 4i .. rc + 4i + 3
GridSections(count, seed, rc) ==
    LET rows == CHOOSE k \in 0..count :
                    k * k >= count /\ \A m \in 0..(k - 1) : m * m < count
        cols == (count + rows - 1) \div rows
        baseWidth == playableWidth \div cols
        baseHeight == playAreaHeight \div rows
    IN  [ k \in 1..count |->
            LET i == k - 1
                row == i \div cols
                col == i % cols
                xJitter == Jitter(Rand(seed, rc + 4 * i), playableWidth \div 10) \div 2
                yJitter == Jitter(Rand(seed, rc + 4 * i + 1), playAreaHeight \div 10) \div 2
                widthJitter == Min(baseWidth \div 5,
                                   Frac(Rand(seed, rc + 4 * i + 2), (baseWidth * 4) \div 10)
                                     - baseWidth \div 5)
                heightJitter == Min(baseHeight \div 5,
                                    Frac(Rand(seed, rc + 4 * i + 3), (baseHeight * 4) \div 10)
                                      - baseHeight \div 5)
            IN  Section(margin + col * baseWidth + xJitter,
                        playAreaTop + row * baseHeight + yJitter,
                        (baseWidth * 9) \div 10 + widthJitter,
                        (baseHeight * 9) \div 10 + heightJitter) ]

\* case 1: columns; column i takes draw rc + i, the last one all that is left
RECURSIVE ColumnSections(_, _, _, _, _, _)
ColumnSections(count, i, currentX, remainingWidth, seed, rc) ==
    IF i = count THEN <<>>
    ELSE LET isLast == i = count - 1
             columnWidthBase == IF isLast THEN remainingWidth
                                ELSE remainingWidth \div (count - i)
             variation == IF isLast THEN 0 ELSE (columnWidthBase * 3) \div 10
             columnWidth == columnWidthBase + Jitter(Rand(seed, rc + i), variation)
         IN  << Section(currentX, playAreaTop, columnWidth, playAreaHeight) >>
               \o ColumnSections(count, i + 1, currentX + columnWidth,
                                 remainingWidth - columnWidth, seed, rc)

\* width * height, in tenths of a pixel squared
Area(s) == (s.width \div 10) * (s.height \div 10)

\* index of the first section of the largest area
LargestIndex(secs) ==
    CHOOSE i \in 1..Len(secs) :
        /\ \A j \in 1..Len(secs) : Area(secs[j]) <= Area(secs[i])
        /\ \A j \in 1..(i - 1) : Area(secs[j]) < Area(secs[i])

\* index of the first section of the smallest area
SmallestIndex(secs) ==
    CHOOSE i \in 1..Len(secs) :
        /\ \A j \in 1..Len(secs) : Area(secs[j]) >= Area(secs[i])
        /\ \A j \in 1..(i - 1) : Area(secs[j]) > Area(secs[i])

\* a splice that inserts the two sections and keeps the one they replace
Splice2Keeping(secs, i, a, b) == SubSeq(secs, 1, i) \o << a, b >> \o SubSeq(secs, i + 1, Len(secs))

\* sections.splice(i, 1, a, b)
Splice2(secs, i, a, b) == SubSeq(secs, 1, i - 1) \o << a, b >> \o SubSeq(secs, i + 1, Len(secs))

\* one pass of the subdivision loop: split the largest section along its
\* longer axis at 30-70% with a gap of 20 pixels
SplitLargest(secs, r) ==
    LET i == LargestIndex(secs)
        s == secs[i]
        gap == Px(20)
    IN  IF s.width > s.height
        THEN LET splitPosition == (s.width * (3000 + r * 4)) \div 10000
             IN  Splice2(secs, i,
                         Section(s.x, s.y, splitPosition - gap \div 2, s.height),
                         Section(s.x + splitPosition + gap \div 2, s.y,
                                 s.width - splitPosition - gap \div 2, s.height))
        ELSE LET splitPosition == (s.height * (3000 + r * 4)) \div 10000
             IN  Splice2(secs, i,
                         Section(s.x, s.y, s.width, splitPosition - gap \div 2),
                         Section(s.x, s.y + splitPosition + gap \div 2,
                                 s.width, s.height - splitPosition - gap \div 2))

\* case 2: while (sections.length < count) split; split k takes draw rc + k
RECURSIVE OrganicSplit(_, _, _, _)
OrganicSplit(secs, count, seed, rc) ==
    IF Len(secs) >= count THEN secs
    ELSE OrganicSplit(SplitLargest(secs, Rand(seed, rc)), count, seed, rc + 1)

\* while (sections.length > count) remove the smallest
RECURSIVE TrimSmallest(_, _)
TrimSmallest(secs, count) ==
    IF Len(secs) <= count THEN secs
    ELSE LET i == SmallestIndex(secs)
         IN  TrimSmallest(SubSeq(secs, 1, i - 1) \o SubSeq(secs, i + 1, Len(secs)), count)


\* the sections before the rotation pass, and the draws they took
BaseSections(count, seed, rc) ==
    IF count = 1
    THEN [secs |-> << Section(margin, playAreaTop, playableWidth, playAreaHeight) >>,
          rc |-> rc]
    ELSE IF count = 2
    THEN [secs |-> TwoSections(seed, rc), rc |-> rc + 3]
    ELSE LET divisionType == RandInt(Rand(seed, rc), 3)
         IN  CASE divisionType = 0 ->
                    [secs |-> GridSections(count, seed, rc + 1), rc |-> rc + 1 + 4 * count]
               [] divisionType = 1 ->
                    [secs |-> ColumnSections(count, 0, margin, playableWidth, seed, rc + 1),
                     rc |-> rc + 1 + count]
               [] OTHER ->
                    [secs |-> TrimSmallest(OrganicSplit(
                                  << Section(margin, playAreaTop, playableWidth,
                                             playAreaHeight) >>,
                                  count, seed, rc + 1), count),
                     rc |-> rc + 1 + (count - 1)]

\* the closing sections.map: a section smaller than 60% of the play area in
\* both directions, above level 5, is rotated with probability 0.3 by
\* -15..15 degrees (kept in milliradians); the draw is taken only when
\* allowRotation holds, and a second one when the rotation is added.
RECURSIVE AddRotation(_, _, _, _)
AddRotation(secs, level, seed, rc) ==
    IF secs = <<>> THEN [secs |-> <<>>, rc |-> rc]
    ELSE LET s == Head(secs)
             allowRotation == /\ level > 5
                              /\ s.width * 10 < playableWidth * 6
                              /\ s.height * 10 < playAreaHeight * 6
             rotate == allowRotation /\ Rand(seed, rc) < 300
             used == IF ~allowRotation THEN 0 ELSE IF rotate THEN 2 ELSE 1
             rest == AddRotation(Tail(secs), level, seed, rc + used)
             rotation == ((Rand(seed, rc + 1) * 30 - 15000) * 3142) \div 180000
             out == IF rotate
                    THEN [x |-> s.x, y |-> s.y, width |-> s.width, height |-> s.height,
                          rotation |-> rotation]
                    ELSE s
         IN  [secs |-> << out >> \o rest.secs, rc |-> rest.rc]

\* divideCanvasIntoSections(count), reading this.currentLevelNumber
divideCanvasIntoSections(count, level, seed, rc) ==
    LET Rotated(base) == AddRotation(base.secs, level, seed, base.rc)
    IN  Rotated(BaseSections(count, seed, rc))

\* createOverlappingSections: the base sections, then min(3, floor(level/4))
\* sections of 30-70% of the play area at a random place, four draws each
createOverlappingSections(count, level, seed, rc) ==
    LET overlapCount == Min(3, level \div 4)
        Overlap(d, sectionWidth, sectionHeight) ==
            Section(margin + Frac(Rand(seed, d + 2), playableWidth - sectionWidth),
                    playAreaTop + Frac(Rand(seed, d + 3), playAreaHeight - sectionHeight),
                    sectionWidth, sectionHeight)
        OverlapAt(d) ==
            Overlap(d, (playableWidth * (3000 + Rand(seed, d) * 4)) \div 10000,
                    (playAreaHeight * (3000 + Rand(seed, d + 1) * 4)) \div 10000)
        Overlapping(base) ==
            [secs |-> base.secs \o [ k \in 1..overlapCount |->
                                       OverlapAt(base.rc + 4 * (k - 1)) ],
             rc |-> base.rc + 4 * overlapCount]
    IN  Overlapping(divideCanvasIntoSections(count, level, seed, rc))


\* ---------------------------------------------------- pattern selection
\* the pool of selectRandomPatternsForLevel: each pattern as many times as
\* its weight, 10 - difficulty up to level 5 and difficulty above
PatternWeight(p, level) ==
    IF level <= 5 THEN 10 - patternDifficulty(p) ELSE patternDifficulty(p)

RECURSIVE WeightedPatterns(_, _)
WeightedPatterns(names, level) ==
    IF names = <<>> THEN <<>>
    ELSE [ i \in 1..Max(0, PatternWeight(Head(names), level)) |-> Head(names) ]
           \o WeightedPatterns(Tail(names), level)

\* the selection loop from slot i on: slot i takes draw rc + i; every copy
\* of the chosen pattern leaves the pool while selected.length < count - 1
RECURSIVE SelectLoop(_, _, _, _, _, _)
SelectLoop(pool, selected, i, count, seed, rc) ==
    IF i >= count \/ pool = <<>> THEN selected
    ELSE LET pattern == pool[RandInt(Rand(seed, rc + i), Len(pool)) + 1]
             now == Append(selected, pattern)
             left == IF Len(now) < count - 1
                     THEN SelectSeq(pool, LAMBDA q : q # pattern)
                     ELSE pool
         IN  SelectLoop(left, now, i + 1, count, seed, rc)

selectRandomPatternsForLevel(availablePatterns, count, level, seed, rc) ==
    SelectLoop(WeightedPatterns(availablePatterns, level), <<>>, 0, count, seed, rc)

\* the selection loop of generateAdvancedLevel: slot i takes draw rc + i and
\* the chosen pattern is spliced out of the list
RECURSIVE AdvancedSelect(_, _, _, _, _, _)
AdvancedSelect(pool, selected, i, count, seed, rc) ==
    IF i >= count THEN selected
    ELSE IF pool = <<>> THEN AdvancedSelect(pool, selected, i + 1, count, seed, rc)
    ELSE LET index == RandInt(Rand(seed, rc + i), Len(pool)) + 1
         IN  AdvancedSelect(SubSeq(pool, 1, index - 1) \o SubSeq(pool, index + 1, Len(pool)),
                            Append(selected, pool[index]), i + 1, count, seed, rc)

\* generateAdvancedLevel up to its call of generateProceduralLevel: the
\* pattern names it passes on (draw rc for the count, rc + 1 .. for the slots)
AdvancedPatterns(availablePatterns, seed, rc) ==
    LET patternCount == 2 + (IF Rand(seed, rc) > 500 THEN 1 ELSE 0)
        mediumPatterns == SelectSeq(availablePatterns,
                             LAMBDA p : patternDifficulty(p) >= 2 /\ patternDifficulty(p) <= 6)
        pool == IF Len(mediumPatterns) >= patternCount THEN mediumPatterns
                ELSE availablePatterns
    IN  AdvancedSelect(pool, <<>>, 0, patternCount, seed, rc + 1)

\* ------------------------------------------------- generatePatternInSection
\* this.patterns[pattern] falling back to the grid function for a missing name
PatternFuncDefaulting(pattern) ==
    IF pattern \in DOMAIN patterns THEN patterns[pattern]
    ELSE patterns["grid"]

\* this.patterns[pattern] for a pattern name, undefined for anything else
PatternFunc(pattern) ==
    IF pattern \in DOMAIN patterns THEN patterns[pattern]
    ELSE [fn |-> "undefined", obj |-> 0]

NoCall == [fn |-> "none", args |-> <<>>]

\* The if / else-if chain of generatePatternInSection: the first branch whose
\* comparison patternFunc === this.createXPattern holds, as the create call
\* it makes (the method and its arguments); NoCall when no comparison holds
\* and pegs stays [].
PatternCall(patternFunc, section, pegSpacing, levelNumber) ==
    LET centerX == section.x + section.width \div 2
        centerY == section.y + section.height \div 2
        radius == (Min(section.width, section.height) * 45) \div 100
        cols == section.width \div pegSpacing
        rows == section.height \div pegSpacing
    IN  IF patternFunc = Method("createGridPattern")
           \/ patternFunc = Method("createCheckerboardPattern")
        THEN [fn |-> patternFunc.fn,
              args |-> << centerX - (cols * pegSpacing) \div 2,
                          centerY - (rows * pegSpacing) \div 2,
                          cols, rows, pegSpacing, 500 >>]
        ELSE IF patternFunc = Method("createDiamondPattern")
        THEN [fn |-> patternFunc.fn, args |-> << centerX, centerY, radius, pegSpacing >>]
        ELSE IF patternFunc = Method("createSpiralPattern")
                \/ patternFunc = Method("createVortexPattern")
        THEN [fn |-> patternFunc.fn,
              args |-> << centerX, centerY, radius, 2 + (levelNumber % 3), pegSpacing >>]
        ELSE IF patternFunc = Method("createWavePattern")
        THEN [fn |-> patternFunc.fn,
              args |-> << section.x, section.y, section.width, section.height,
                          pegSpacing, 2 + (levelNumber % 3) >>]
        ELSE IF patternFunc = Method("createTunnelPattern")
        THEN [fn |-> patternFunc.fn,
              args |-> << centerX, centerY, radius, pegSpacing,
                          IF levelNumber % 2 = 0 THEN 1 ELSE 0 >>]
        ELSE IF patternFunc = Method("createRandomPattern")
        THEN [fn |-> patternFunc.fn,
              args |-> << section.x + pegRadius * 2, section.y + pegRadius * 2,
                          section.x + section.width - pegRadius * 2,
                          section.y + section.height - pegRadius * 2,
                          pegSpacing,
                          ((section.width \div 10) * (section.height \div 10) * 3)
                             \div ((pegSpacing \div 10) * (pegSpacing \div 10) * 10) >>]
        ELSE IF patternFunc = Method("createClusteredPattern")
        THEN [fn |-> patternFunc.fn,
              args |-> << section.x, section.y, section.width, section.height,
                          pegSpacing, 1 + (levelNumber \div 5) >>]
        ELSE IF patternFunc = Method("createConcentricPattern")
        THEN [fn |-> patternFunc.fn, args |-> << centerX, centerY, radius, pegSpacing >>]
        ELSE IF patternFunc = Method("createZigzagPattern")
        THEN [fn |-> patternFunc.fn,
              args |-> << section.x, section.y, section.width, section.height, pegSpacing >>]
        ELSE IF patternFunc = Method("createHourglassPattern")
        THEN [fn |-> patternFunc.fn, args |-> << centerX, centerY, radius, pegSpacing >>]
        ELSE IF patternFunc = Method("createMazePattern")
        THEN [fn |-> patternFunc.fn,
              args |-> << section.x, section.y, section.width, section.height, pegSpacing >>]
        ELSE NoCall

\* --------------------------------------------------------------- geometry
Peg(x, y, c) == [x |-> x, y |-> y, colorIndex |-> c]

\* Math.sqrt(dx * dx + dy * dy) < minDistance, for minDistance >= 0: a
\* coordinate difference of minDistance or more already decides it
Closer(ax, ay, bx, by, minDistance) ==
    LET dx == Abs(ax - bx)
        dy == Abs(ay - by)
    IN  /\ dx < minDistance
        /\ dy < minDistance
        /\ dx * dx + dy * dy < minDistance * minDistance

\* the overlap test comparing with the last peg of the list only
TooCloseToLast(list, x, y, minDistance) ==
    /\ Len(list) > 0
    /\ Closer(list[Len(list)].x, list[Len(list)].y, x, y, minDistance)

\* some peg of the list is closer than minDistance to (x, y)
TooClose(list, x, y, minDistance) ==
    \E i \in 1..Len(list) : Closer(list[i].x, list[i].y, x, y, minDistance)

\* Math.floor(Math.sqrt(v)) by bisection
RECURSIVE SqrtIn(_, _, _)
SqrtIn(v, lo, hi) ==
    IF hi - lo <= 1 THEN lo
    ELSE LET mid == (lo + hi) \div 2
         IN  IF mid * mid <= v THEN SqrtIn(v, mid, hi) ELSE SqrtIn(v, lo, mid)
ISqrt(v) == SqrtIn(v, 0, 46341)


\* 2 * Math.PI and Math.PI in milliradians
TwoPi == 6283
Pi == 3142

\* Math.sin of an angle in milliradians, in thousandths (Bhaskara's
\* rational approximation, within 0.002 of the sine)
SinHalf(t) ==
    LET q == (t * (Pi - t)) \div 100
    IN  (16000 * q) \div (5 * ((Pi * Pi) \div 100) - 4 * q)
Sin(a) ==
    LET t == a % TwoPi
    IN  IF t <= Pi THEN SinHalf(t) ELSE -SinHalf(Min(t - Pi, Pi))
Cos(a) == Sin(a + Pi \div 2)

\* Math.atan of z/1000 for 0 <= z <= 1000, in milliradians:
\* z * (pi/4 + 0.273 * (1 - z)), within 0.004 of the arc tangent
AtanUnit(z) == (z * (785 + (273 * (1000 - z)) \div 1000)) \div 1000

\* Math.atan2(dy, dx) in milliradians, in (-Pi, Pi]
Atan2(dy, dx) ==
    LET ax == Abs(dx)
        ay == Abs(dy)
        first == IF ax = 0 /\ ay = 0 THEN 0
                 ELSE IF ay <= ax THEN AtanUnit(((ay \div 10) * 1000) \div Max(1, ax \div 10))
                 ELSE Pi \div 2 - AtanUnit(((ax \div 10) * 1000) \div Max(1, ay \div 10))
        upper == IF dx >= 0 THEN first ELSE Pi - first
    IN  IF dy >= 0 THEN upper ELSE -upper

\* ------------------------------------------------------ pattern functions
\* this.getAvailableColors(this.currentLevelNumber || 1); an unset
\* currentLevelNumber is 0
ColorsOf(currentLevel) == getAvailableColors(IF currentLevel = 0 THEN 1 ELSE currentLevel)

\* createGridPattern: cell k (row-major, from 0) draws rc + 2k for the
\* density test (skipped when Math.random() > density, density in
\* thousandths) and rc + 2k + 1 for its color
createGridPattern(startX, startY, columns, rows, pegSpacing, density, currentLevel, seed, rc) ==
    LET availableColors == ColorsOf(currentLevel)
        cells == [ k \in 1..(rows * columns) |-> k - 1 ]
        kept == SelectSeq(cells, LAMBDA k : ~(Rand(seed, rc + 2 * k) > density))
    IN  [ j \in 1..Len(kept) |->
            Peg(startX + (kept[j] % columns) * pegSpacing,
                startY + (kept[j] \div columns) * pegSpacing,
                RandInt(Rand(seed, rc + 2 * kept[j] + 1), availableColors)) ]

\* generateSimpleLevel: a centred grid of 6 rows at density 0.8 from y = 180
generateSimpleLevel(pegSpacing, currentLevel, seed, rc) ==
    LET centerX == canvasWidth \div 2
        gridCols == playableWidth \div pegSpacing
        gridRows == 6
        actualGridWidth == gridCols * pegSpacing
        centeredGridStartX == centerX - actualGridWidth \div 2
    IN  createGridPattern(centeredGridStartX, Px(180), gridCols, gridRows, pegSpacing,
                          800, currentLevel, seed, rc)

\* createChallengeCluster(levelNumber, pegSpacing): a cluster at a random
\* place (draws rc, rc + 1), of the type levelNumber % 4
createChallengeCluster(levelNumber, pegSpacing, seed, rc) ==
    LET availableColors == getAvailableColors(levelNumber)
        edge == Px(150)
        x == edge + Frac(Rand(seed, rc), canvasWidth - 2 * edge)
        y == edge + Frac(Rand(seed, rc + 1), canvasHeight - 2 * edge)
        challengeType == levelNumber % 4
        step == (pegSpacing * 8) \div 10
    IN  CASE challengeType = 0 ->
               LET clusterSize == 5 + (levelNumber \div 3)
                   radius == pegSpacing * 2
               IN  [ k \in 1..clusterSize |->
                       LET i == k - 1
                           angle == (i * TwoPi) \div clusterSize
                           distance == Frac(Rand(seed, rc + 2 + i), radius)
                       IN  Peg(x + (Cos(angle) * distance) \div 1000,
                               y + (Sin(angle) * distance) \div 1000,
                               i % availableColors) ]
          [] challengeType = 1 ->
               LET lineLength == 5 + (levelNumber \div 3)
                   angle == Frac(Rand(seed, rc + 2), Pi)
               IN  [ k \in 1..lineLength |->
                       Peg(x + (Cos(angle) * (k - 1) * step) \div 1000,
                           y + (Sin(angle) * (k - 1) * step) \div 1000,
                           (k - 1) % availableColors) ]
          [] challengeType = 2 ->
               LET gridSize == 2 + (levelNumber \div 4)
               IN  [ k \in 1..(gridSize * gridSize) |->
                       LET row == (k - 1) \div gridSize
                           col == (k - 1) % gridSize
                       IN  Peg(x + ((2 * col - gridSize) * step) \div 2,
                               y + ((2 * row - gridSize) * step) \div 2,
                               (row + col) % availableColors) ]
          [] OTHER ->
               LET spiralArms == 2 + (levelNumber \div 5)
                   pointsPerArm == 3 + (levelNumber \div 4)
               IN  [ k \in 1..(spiralArms * pointsPerArm) |->
                       LET arm == (k - 1) \div pointsPerArm
                           i == (k - 1) % pointsPerArm
                           distance == (i * pegSpacing * 7) \div 10
                           angle == (arm * TwoPi) \div spiralArms + i * 400
                       IN  Peg(x + (Cos(angle) * distance) \div 1000,
                               y + (Sin(angle) * distance) \div 1000,
                               (arm + i) % availableColors) ]

\* removeEdgePegs(pegs, minEdgeDistance)
removeEdgePegs(list, minEdgeDistance) ==
    SelectSeq(list, LAMBDA peg :
        /\ peg.x >= margin + minEdgeDistance
        /\ peg.x <= canvasWidth - margin - minEdgeDistance
        /\ peg.y >= minEdgeDistance
        /\ peg.y <= canvasHeight - minEdgeDistance)

\* per-color counts of the pegs whose color is below availableColors, as
\* createFillerPegs and balanceColors take them
CountColor(list, c) == Cardinality({ i \in 1..Len(list) : list[i].colorIndex = c })

\* the last color of the lowest count, as a search with <= would find
MinColorIndexLast(counts, availableColors) ==
    CHOOSE c \in 0..(availableColors - 1) :
        /\ \A d \in 0..(availableColors - 1) : counts[c] <= counts[d]
        /\ \A d \in (c + 1)..(availableColors - 1) : counts[d] > counts[c]

\* the first color of the lowest count among 0 .. availableColors - 1
MinColorIndex(counts, availableColors) ==
    CHOOSE c \in 0..(availableColors - 1) :
        /\ \A d \in 0..(availableColors - 1) : counts[c] <= counts[d]
        /\ \A d \in 0..(c - 1) : counts[d] > counts[c]

\* -------------------------------------------------------- color gradients
horizontalGradient(peg, availableColors, levelNumber) ==
    ((peg.x - margin) * availableColors) \div (canvasWidth - 2 * margin)

verticalGradient(peg, availableColors, levelNumber) ==
    (peg.y * availableColors) \div canvasHeight

\* the distance from the canvas centre to a corner
MaxDistance == 2 * ISqrt((canvasWidth \div 4) * (canvasWidth \div 4)
                          + (canvasHeight \div 4) * (canvasHeight \div 4))

\* the distance of a peg from the canvas centre (squares taken on halves to
\* stay within 32 bits)
CenterDistance(peg) ==
    LET dx == (peg.x - canvasWidth \div 2) \div 2
        dy == (peg.y - canvasHeight \div 2) \div 2
    IN  2 * ISqrt(dx * dx + dy * dy)

radialGradient(peg, availableColors, levelNumber) ==
    (CenterDistance(peg) * availableColors) \div MaxDistance

stripeGradient(peg, availableColors, levelNumber) ==
    LET stripeSize == Px(40 + (levelNumber % 3) * 15)
    IN  peg.x \div stripeSize % availableColors

\* simpleNoise: the fractional part of sin(12.9898 x + 78.233 y) * 43758.5453,
\* a value in [0, 1) that the position fixes; in thousandths. The digits of
\* that product are out of a fixed-point sine's reach, so the value is a
\* hash of the scaled position.
simpleNoise(x, y) ==
    LET h1 == ((x % 9973) * 131 + (y % 9973) * 7877 + 12) % 10007
        h2 == (h1 * h1 + 78) % 10007
    IN  ((h2 * h2 + h1) % 10007) % 1000

noiseGradient(peg, availableColors, levelNumber) ==
    LET noiseScale == 10 + levelNumber * 2
        noiseValue == simpleNoise((peg.x \div 100) * noiseScale, (peg.y \div 100) * noiseScale)
    IN  (noiseValue * availableColors) \div 1000

\* spiralGradient: (angle + distance * 0.01 * levelNumber) / (2 pi), its
\* remainder by 1 (which keeps the sign of the dividend), times the colors,
\* rounded down
spiralGradient(peg, availableColors, levelNumber) ==
    LET angle == Atan2(peg.y - canvasHeight \div 2, peg.x - canvasWidth \div 2)
        turned == angle + (CenterDistance(peg) * levelNumber) \div 10
    IN  IF turned >= 0
        THEN ((turned % TwoPi) * availableColors) \div TwoPi
        ELSE (-(((-turned) % TwoPi) * availableColors)) \div TwoPi

\* a ^ b for a, b >= 0
RECURSIVE BitXor(_, _)
BitXor(a, b) ==
    IF a = 0 THEN b
    ELSE IF b = 0 THEN a
    ELSE ((a + b) % 2) + 2 * BitXor(a \div 2, b \div 2)

\* Math.abs(((x * 3733 + y * 2053) ^ seed * 4057) % 967)
hashFunction(x, y, seed) == Abs(BitXor(x * 3733 + y * 2053, seed * 4057) % 967)

patternGradient(peg, availableColors, levelNumber) ==
    LET cellSize == Px(100 - levelNumber * 2)
    IN  hashFunction(peg.x \div cellSize, peg.y \div cellSize, levelNumber)
          % availableColors

\* gradientTypes[t](peg, availableColors, levelNumber)
Gradient(t, peg, availableColors, levelNumber) ==
    CASE t = 0 -> horizontalGradient(peg, availableColors, levelNumber)
      [] t = 1 -> verticalGradient(peg, availableColors, levelNumber)
      [] t = 2 -> radialGradient(peg, availableColors, levelNumber)
      [] t = 3 -> stripeGradient(peg, availableColors, levelNumber)
      [] t = 4 -> noiseGradient(peg, availableColors, levelNumber)
      [] t = 5 -> spiralGradient(peg, availableColors, levelNumber)
      [] OTHER -> patternGradient(peg, availableColors, levelNumber)

\* blendColorGradients: draw rc for the blend factor 0.3 .. 0.7, and for the
\* noise blend (levelNumber % 3 = 2) draw rc + i for peg i
blendColorGradients(list, t1, t2, availableColors, levelNumber, seed, rc) ==
    LET blendFactor == 500 + (Frac(Rand(seed, rc), 400) - 200)
        blendType == levelNumber % 3
        first(i) ==
            CASE blendType = 0 ->
                   (list[i].x \div Px(50) + list[i].y \div Px(50)) % 2 = 0
              [] blendType = 1 ->
                   CenterDistance(list[i]) * 1000 < blendFactor * MaxDistance
              [] OTHER -> Rand(seed, rc + i) < blendFactor
    IN  [ i \in 1..Len(list) |->
            Peg(list[i].x, list[i].y,
                IF first(i) THEN Gradient(t1, list[i], availableColors, levelNumber)
                ELSE Gradient(t2, list[i], availableColors, levelNumber)) ]

\* applyColorGradient: draw rc picks the type among the first
\* min(7, 2 + floor(level / 2)); above level 6 draw rc + 1 < 0.4 blends it
\* with a second type picked by draw rc + 2
applyColorGradient(list, availableColors, levelNumber, seed, rc) ==
    LET availableTypes == Min(7, 2 + (levelNumber \div 2))
        gradientType == (levelNumber + RandInt(Rand(seed, rc), 3)) % availableTypes
        useBlendedGradient == levelNumber > 6 /\ Rand(seed, rc + 1) < 400
        secondType == (gradientType + 1 + RandInt(Rand(seed, rc + 2), availableTypes - 1))
                        % availableTypes
    IN  IF useBlendedGradient
        THEN blendColorGradients(list, gradientType, secondType, availableColors,
                                 levelNumber, seed, rc + 3)
        ELSE [ i \in 1..Len(list) |->
                 Peg(list[i].x, list[i].y,
                     Gradient(gradientType, list[i], availableColors, levelNumber)) ]

\* ---------------------------------------------------------- balanceColors
\* the recolored peg built without the spread of the old peg
SetColorOnly(peg, c) == Peg(0, 0, c)

SetColor(peg, c) == Peg(peg.x, peg.y, c)

\* colorCounts of balanceColors: Array(8), counting the pegs whose color is
\* below availableColors
ColorCounts(list, availableColors) ==
    [ c \in 0..7 |-> IF c < availableColors THEN CountColor(list, c) ELSE 0 ]

\* the pegs.map of balanceColors over the pegs whose color is not below
\* availableColors (todo, their indexes in order): each goes to the color of
\* the lowest running count
RECURSIVE Reassign(_, _, _, _)
Reassign(list, todo, colorCounts, availableColors) ==
    IF todo = <<>> THEN list
    ELSE LET i == Head(todo)
             minColorIndex == MinColorIndex(colorCounts, availableColors)
             old == list[i].colorIndex
             dec == IF old \in 0..7
                    THEN [colorCounts EXCEPT ![old] = @ - 1] ELSE colorCounts
         IN  Reassign([list EXCEPT ![i] = SetColor(@, minColorIndex)], Tail(todo),
                      [dec EXCEPT ![minColorIndex] = @ + 1], availableColors)

\* a stage that reassigns every peg, in range or not
BalancedEvery(list, availableColors) ==
    Reassign(list, [ i \in 1..Len(list) |-> i ], ColorCounts(list, availableColors),
             availableColors)

\* the list balanced of balanceColors: the pegs with every color that is not
\* below availableColors reassigned
Balanced(list, availableColors) ==
    LET outOfRange == SelectSeq([ i \in 1..Len(list) |-> i ],
                               LAMBDA i : list[i].colorIndex >= availableColors)
    IN  Reassign(list, outOfRange, ColorCounts(list, availableColors), availableColors)

\* ------------------------------------------------ ensureMinimumColorCounts
\* Math.max(3, Math.floor(5 - levelNumber * 0.1))
MinPerColor(levelNumber) == Max(3, (50 - levelNumber) \div 10)

AdjustedMinimum(color, levelNumber) ==
    IF color = 5 /\ levelNumber = 3 THEN MinPerColor(levelNumber) + 2
    ELSE MinPerColor(levelNumber)

\* a conversion loop: for i from 0 while converted < needed, the pegs whose
\* color is in `from` become `color`; that is, the first `needed` of them
ConvertFirst(list, from, needed, color) ==
    LET eligible == { i \in 1..Len(list) : list[i].colorIndex \in from }
        taken == { i \in eligible : Cardinality({ j \in eligible : j <= i }) <= needed }
    IN  [ i \in 1..Len(list) |-> IF i \in taken THEN SetColor(list[i], color) ELSE list[i] ]

\* donors among which cyan is taken like any other color
AnyColorCyanToo(list, color, levelNumber) ==
    { list[i].colorIndex : i \in 1..Len(list) } \ {color}

\* the colors a peg may be taken from when any peg will do: every color but
\* the one being raised and, on level 3, cyan
AnyColor(list, color, levelNumber) ==
    { list[i].colorIndex : i \in 1..Len(list) }
       \ ({color} \cup (IF levelNumber = 3 THEN {5} ELSE {}))

\* the body of the loop over colorOrder for one color
RaiseColor(list, color, availableColors, levelNumber) ==
    LET minPerColor == MinPerColor(levelNumber)
        adjustedMinimum == AdjustedMinimum(color, levelNumber)
        count == CountColor(list, color)
        needed == adjustedMinimum - count
        excessColors == { c \in 0..(availableColors - 1) :
                            /\ ~(levelNumber = 3 /\ c = 5)
                            /\ c # color
                            /\ CountColor(list, c) > minPerColor + 2 }
        fromExcess == ConvertFirst(list, excessColors, needed, color)
        converted == CountColor(fromExcess, color) - count
    IN  IF color >= availableColors \/ count >= adjustedMinimum THEN list
        ELSE IF excessColors # {}
        THEN IF converted < needed
             THEN ConvertFirst(fromExcess, AnyColor(fromExcess, color, levelNumber),
                               needed - converted, color)
             ELSE fromExcess
        ELSE ConvertFirst(list, AnyColor(list, color, levelNumber), needed, color)

RECURSIVE RaiseColors(_, _, _, _)
RaiseColors(list, colorOrder, availableColors, levelNumber) ==
    IF colorOrder = <<>> THEN list
    ELSE RaiseColors(RaiseColor(list, Head(colorOrder), availableColors, levelNumber),
                     Tail(colorOrder), availableColors, levelNumber)

\* colorIndex % availableColors for a colorIndex >= availableColors
Normalize(list, availableColors) ==
    [ i \in 1..Len(list) |->
        IF list[i].colorIndex >= availableColors
        THEN SetColor(list[i], list[i].colorIndex % availableColors)
        ELSE list[i] ]

ensureMinimumColorCounts(list, availableColors, levelNumber) ==
    LET colorOrder == IF levelNumber = 3 THEN << 5, 0, 1, 2, 3, 4 >>
                      ELSE [ k \in 1..availableColors |-> k - 1 ]
    IN  Normalize(RaiseColors(Normalize(list, availableColors), colorOrder,
                              availableColors, levelNumber),
                  availableColors)

\* balanceColors(pegs, availableColors, levelNumber); the gradient draws
\* start at rc
balanceColors(list, availableColors, levelNumber, seed, rc) ==
    LET balanced == Balanced(list, availableColors)
        colorPatterned == IF levelNumber > 3
                          THEN applyColorGradient(balanced, availableColors, levelNumber,
                                                  seed, rc)
                          ELSE balanced
    IN  ensureMinimumColorCounts(colorPatterned, availableColors, levelNumber)

\* ------------------------------------------------------ getColorThresholds
\* the bands with the third one starting at 0.35 instead of 0.55
ScaledThresholdLowBand(levelNumber) ==
    IF levelNumber <= 5 THEN 2500 + (levelNumber - 1) * 375
    ELSE IF levelNumber <= 10 THEN 4000 + (levelNumber - 6) * 375
    ELSE IF levelNumber <= 15 THEN 3500 + (levelNumber - 11) * 375
    ELSE Min(8000, 7000 + (levelNumber - 16) * 100)

\* thresholds in ten-thousandths; (levelNumber - k) / 4 * 0.15 is 375 a level
ScaledThreshold(levelNumber) ==
    IF levelNumber <= 5 THEN 2500 + (levelNumber - 1) * 375
    ELSE IF levelNumber <= 10 THEN 4000 + (levelNumber - 6) * 375
    ELSE IF levelNumber <= 15 THEN 5500 + (levelNumber - 11) * 375
    ELSE Min(8000, 7000 + (levelNumber - 16) * 100)

\* the variation applied from level 3 on instead of above level 3
ColorVariationFromThree(i, availableColors, levelNumber, seed, rc) ==
    IF levelNumber >= 3
    THEN (IF i = 0 THEN 500 ELSE IF i = availableColors - 1 THEN -300 ELSE 0)
           + ((Rand(seed, rc + i) * 600) \div 1000 - 300)
    ELSE 0

\* color i takes draw rc + i for Math.random() * 0.06 - 0.03, above level 3
ColorVariation(i, availableColors, levelNumber, seed, rc) ==
    IF levelNumber > 3
    THEN (IF i = 0 THEN 500 ELSE IF i = availableColors - 1 THEN -300 ELSE 0)
           + ((Rand(seed, rc + i) * 600) \div 1000 - 300)
    ELSE 0

getColorThresholds(levelNumber, seed, rc) ==
    LET availableColors == getAvailableColors(levelNumber)
    IN  [ i \in 0..7 |->
            IF i < availableColors
            THEN Min(8500, Max(2000, ScaledThreshold(levelNumber)
                                       + ColorVariation(i, availableColors, levelNumber,
                                                        seed, rc)))
            ELSE 0 ]

\* the game's step function with the first step one level late
getAvailableColorsLate(level) ==
    IF level <= 3 THEN 4
    ELSE IF level <= 10 THEN 6
    ELSE 8

\* game.js: getAvailableColorsForLevel(level)
getAvailableColorsForLevel(level) ==
    IF level <= 2 THEN 4
    ELSE IF level >= 3 /\ level <= 10 THEN 6
    ELSE IF level >= 11 THEN 8
    ELSE 4

\* ------------------------------------------- create functions and noise
\* createCheckerboardPattern: the cells with (row + col) even, cell k
\* drawing rc + 2k (kept when Math.random() <= density) and rc + 2k + 1
createCheckerboardPattern(startX, startY, columns, rows, pegSpacing, density, currentLevel, seed, rc) ==
    LET availableColors == ColorsOf(currentLevel)
        cells == [ k \in 1..(rows * columns) |-> k - 1 ]
        kept == SelectSeq(cells, LAMBDA k :
                    /\ ((k \div columns) + (k % columns)) % 2 = 0
                    /\ Rand(seed, rc + 2 * k) <= density)
    IN  [ j \in 1..Len(kept) |->
            Peg(startX + (kept[j] % columns) * pegSpacing,
                startY + (kept[j] \div columns) * pegSpacing,
                RandInt(Rand(seed, rc + 2 * kept[j] + 1), availableColors)) ]

\* createDiamondPattern: rows i = -steps .. steps of 2 (steps - |i|) + 1
\* pegs, j = -rowWidth/2 .. rowWidth/2; peg k of the pattern draws rc + k
createDiamondPattern(centerX, centerY, radius, pegSpacing, currentLevel, seed, rc) ==
    LET availableColors == ColorsOf(currentLevel)
        steps == radius \div pegSpacing
        side == 2 * steps + 1
        cells == [ k \in 1..(side * side) |-> k - 1 ]
        row(k) == (k \div side) - steps
        col(k) == (k % side) - steps
        kept == SelectSeq(cells, LAMBDA k : Abs(col(k)) <= steps - Abs(row(k)))
    IN  [ j \in 1..Len(kept) |->
            Peg(centerX + col(kept[j]) * pegSpacing,
                centerY + row(kept[j]) * pegSpacing,
                RandInt(Rand(seed, rc + j - 1), availableColors)) ]

\* The create call the dispatch of generatePatternInSection has chosen. No
\* comparison of the dispatch holds for a function of the catalog, so no
\* behaviour makes a call; the grid, checkerboard and diamond functions (the
\* patterns of level 2) are written out, the others have no case here.
CallPattern(call, currentLevel, seed, rc) ==
    CASE call.fn = "createGridPattern" ->
           createGridPattern(call.args[1], call.args[2], call.args[3], call.args[4],
                             call.args[5], call.args[6], currentLevel, seed, rc)
      [] call.fn = "createCheckerboardPattern" ->
           createCheckerboardPattern(call.args[1], call.args[2], call.args[3],
                                     call.args[4], call.args[5], call.args[6],
                                     currentLevel, seed, rc)
      [] call.fn = "createDiamondPattern" ->
           createDiamondPattern(call.args[1], call.args[2], call.args[3], call.args[4],
                                currentLevel, seed, rc)

\* the rotation of the pegs about the section centre, when the section has one
RotatePegs(list, section) ==
    LET centerX == section.x + section.width \div 2
        centerY == section.y + section.height \div 2
    IN  IF "rotation" \in DOMAIN section
        THEN [ i \in 1..Len(list) |->
                 LET dx == list[i].x - centerX
                     dy == list[i].y - centerY
                     cos == Cos(section.rotation)
                     sin == Sin(section.rotation)
                 IN  Peg(centerX + ((dx \div 10) * cos - (dy \div 10) * sin) \div 100,
                         centerY + ((dx \div 10) * sin + (dy \div 10) * cos) \div 100,
                         list[i].colorIndex) ]
        ELSE list

\* generatePatternInSection(patternFunc, section, pegSpacing, levelNumber)
generatePatternInSection(patternFunc, section, pegSpacing, levelNumber, currentLevel, seed, rc) ==
    LET Made(call) == IF call = NoCall THEN <<>>
                      ELSE CallPattern(call, currentLevel, seed, rc)
    IN  RotatePegs(Made(PatternCall(patternFunc, section, pegSpacing, levelNumber)),
                   section)

\* applyProceduralNoise: above level 2, peg i is kept when draw rc + 3i is
\* above the removal probability, and moved by draws rc + 3i + 1 and + 2
applyProceduralNoise(list, levelNumber, pegSpacing, seed, rc) ==
    LET positionNoiseFactor == Min(300, 50 + levelNumber * 20)
        removalProbability == Min(300, 50 + levelNumber * 10)
        maxDisplacement == (pegSpacing * positionNoiseFactor) \div 1000
        kept == SelectSeq([ i \in 1..Len(list) |-> i ],
                          LAMBDA i : Rand(seed, rc + 3 * i) > removalProbability)
    IN  IF levelNumber <= 2 THEN list
        ELSE [ j \in 1..Len(kept) |->
                 Peg(list[kept[j]].x + Jitter(Rand(seed, rc + 3 * kept[j] + 1), maxDisplacement),
                     list[kept[j]].y + Jitter(Rand(seed, rc + 3 * kept[j] + 2), maxDisplacement),
                     list[kept[j]].colorIndex) ]

\* what one generatePatternInSection call is remembered by: the pattern
\* name, the function and the section passed, and the create call the
\* dispatch made
Rendering(pattern, section, pegSpacing, levelNumber) ==
    LET Rendered(func) ==
            [pattern |-> pattern, func |-> func, section |-> section,
             call |-> PatternCall(func, section, pegSpacing, levelNumber)]
    IN  Rendered(PatternFunc(pattern))

\* selectedPatterns[i]; "undefined" past the end of the list
PatternAt(selected, k) == IF k <= Len(selected) THEN selected[k] ELSE "undefined"

\* the draws of pattern k of a level start at PatternDraws(k)
PatternDraws(k) == 1000 + 2000 * (k - 1)

\* generateProceduralLevel up to its call of createRandomPattern: the pegs
\* of the patterns in their sections, after noise, and the renderings made
ProceduralPatterns(levelNumber, patternCount, availablePatterns, pegSpacing, currentLevel, seed, rc) ==
    LET patternPegs(pattern, section, k) ==
            applyProceduralNoise(
                generatePatternInSection(PatternFunc(pattern), section, pegSpacing,
                                         levelNumber, currentLevel, seed, PatternDraws(k)),
                levelNumber, pegSpacing, seed, PatternDraws(k) + 1000)
        Assemble(sections, selectedPatterns) ==
            LET RECURSIVE join(_)
                join(k) == IF k = 0 THEN <<>>
                           ELSE join(k - 1) \o patternPegs(PatternAt(selectedPatterns, k),
                                                           sections[k], k)
            IN  [pegs |-> join(patternCount),
                 rendered |-> [ k \in 1..patternCount |->
                                  Rendering(PatternAt(selectedPatterns, k), sections[k],
                                            pegSpacing, levelNumber) ]]
    IN  Assemble(IF levelNumber > 7
                 THEN createOverlappingSections(patternCount, currentLevel, seed, rc).secs
                 ELSE divideCanvasIntoSections(patternCount, currentLevel, seed, rc).secs,
                 selectRandomPatternsForLevel(availablePatterns, patternCount,
                                              levelNumber, seed, rc + 50))

\* generateIntermediateLevel: two of grid, checkerboard, diamond (random when
\* fewer than two of them are available), one in each of two sections
IntermediatePatterns(availablePatterns) ==
    LET simple == SelectSeq(<< "grid", "checkerboard", "diamond" >>,
                            LAMBDA p : \E i \in 1..Len(availablePatterns) :
                                           availablePatterns[i] = p)
        simplePatterns == IF Len(simple) < 2 THEN Append(simple, "random") ELSE simple
    IN  << simplePatterns[1], simplePatterns[IF Len(simplePatterns) > 1 THEN 2 ELSE 1] >>

generateIntermediateLevel(levelNumber, pegSpacing, availablePatterns, currentLevel, seed, rc) ==
    LET patternPegs(pattern, section, k) ==
            generatePatternInSection(PatternFunc(pattern), section, pegSpacing,
                                     levelNumber, currentLevel, seed, PatternDraws(k))
        Assemble(chosen, sections) ==
            [pegs |-> patternPegs(chosen[1], sections[1], 1)
                        \o patternPegs(chosen[2], sections[2], 2),
             rendered |-> [ k \in 1..2 |->
                              Rendering(chosen[k], sections[k], pegSpacing, levelNumber) ]]
    IN  Assemble(IntermediatePatterns(availablePatterns),
                 divideCanvasIntoSections(2, currentLevel, seed, rc).secs)

\* ========================================================== state machine
VARIABLES
    pc,                  \* where the running generateLevel call is; "idle" when none
    gpc,                 \* the game script: "script" before its first resetLevel,
                         \* "reset" inside resetLevel, "play" between handlers
    currentLevelNumber,  \* LevelGenerator.currentLevelNumber, 0 while unset
    levelNumber,         \* the argument of the running generateLevel call
    seed,                \* the random outcome of the running call
    pegSpacing,          \* the spacing of generateLevel / ensureMinimumPegs
    pegs,                \* the peg list under construction
    loc,                 \* the locals of the loop in progress
    lastFilter,          \* minDistance of the last removePegOverlaps pass, 0 if none
    rendered,            \* the generatePatternInSection calls of the running call
    currentLevel,        \* game.js state
    colorThresholds,
    pegCountsByColor,
    hitPegCountsByColor,
    board,               \* colorGroup of each peg of the level, in list order
    hits,                \* the pegs 1 .. hits of the board have isHit set
    levelCompleted,
    shopActive,
    shopTimer,           \* the setTimeout of checkLevelCompletion is pending
    score,
    currency,
    totalRunBalls,
    ballsRemaining,
    skipTimer,           \* the level of the pending setTimeout of skipToLevel, 0 if none
    gameOver,
    activeBalls,         \* the bodies labelled 'ball' in the world
    query,               \* a direct call of a pure function: its arguments
    answer               \* and what it returned

genVars == << pc, currentLevelNumber, levelNumber, seed, pegSpacing, pegs, loc,
              lastFilter, rendered >>
gameVars == << gpc, currentLevel, colorThresholds, pegCountsByColor, hitPegCountsByColor,
               board, hits, levelCompleted, shopActive, shopTimer, score, currency,
               totalRunBalls, ballsRemaining, skipTimer, gameOver, activeBalls >>
queryVars == << query, answer >>
vars == << genVars, gameVars, queryVars >>

NoLoc == [loop |-> "none"]
Zeros == [ c \in 0..7 |-> 0 ]
NoQuery == [fn |-> "none"]

\* the generator as its constructor leaves it, and the game state as the
\* declarations of game.js leave it
Init ==
    /\ pc = "idle"
    /\ currentLevelNumber = 0
    /\ levelNumber = 0
    /\ seed = 0
    /\ pegSpacing = 0
    /\ pegs = << >>
    /\ loc = NoLoc
    /\ lastFilter = 0
    /\ rendered = << >>
    /\ gpc = "script"
    /\ currentLevel = 1
    /\ colorThresholds = [ c \in 0..7 |-> 2500 ]
    /\ pegCountsByColor = Zeros
    /\ hitPegCountsByColor = Zeros
    /\ board = << >>
    /\ hits = 0
    /\ levelCompleted = FALSE
    /\ shopActive = FALSE
    /\ shopTimer = FALSE
    /\ score = 0
    /\ currency = 0
    /\ totalRunBalls = 10
    /\ ballsRemaining = 10
    /\ skipTimer = 0
    /\ gameOver = FALSE
    /\ activeBalls = 0
    /\ query = NoQuery
    /\ answer = NoQuery

\* the draws of the loops and stages of one call
RandomDraws == 10000
ClusterDraws == 12000
FillerDraws(depth) == 20000 + depth * 10000
GradientDraws == 90000
ThresholdDraws == 95000
CreatePegDraws == 96000

\* generateLevel storing the level number on the first call only
BeginGenerateLevelOnce(n, s) ==
    /\ currentLevelNumber' = (IF currentLevelNumber = 0 THEN n ELSE currentLevelNumber)
    /\ levelNumber' = n
    /\ seed' = s
    /\ pegSpacing' = LevelSpacing(n)
    /\ pegs' = << >>
    /\ loc' = NoLoc
    /\ lastFilter' = 0
    /\ rendered' = << >>
    /\ pc' = "assemble"

\* generateLevel, lines 108-134: the level number is stored and the spacing,
\* pattern count, patterns, minimum count and colors are computed
BeginGenerateLevel(n, s) ==
    /\ currentLevelNumber' = n
    /\ levelNumber' = n
    /\ seed' = s
    /\ pegSpacing' = LevelSpacing(n)
    /\ pegs' = << >>
    /\ loc' = NoLoc
    /\ lastFilter' = 0
    /\ rendered' = << >>
    /\ pc' = "assemble"

\* a call generateLevel(n) with random outcome s
GenerateLevel(n, s) ==
    /\ pc = "idle"
    /\ gpc = "script"
    /\ BeginGenerateLevel(n, s)
    /\ UNCHANGED << gameVars, queryVars >>

availablePatternsOf(n) == selectPatternsByDifficulty(Min(10, (n \div 2) + 1))

\* levelNumber === 1
SimpleLevel ==
    /\ pc = "assemble"
    /\ levelNumber = 1
    /\ pegs' = generateSimpleLevel(pegSpacing, currentLevelNumber, seed, 0)
    /\ pc' = "checkMinimum"
    /\ UNCHANGED << currentLevelNumber, levelNumber, seed, pegSpacing, loc, lastFilter,
                    rendered, gameVars, queryVars >>

\* levelNumber === 2
IntermediateLevel ==
    /\ pc = "assemble"
    /\ levelNumber = 2
    /\ LET made == generateIntermediateLevel(levelNumber, pegSpacing,
                                             availablePatternsOf(levelNumber),
                                             currentLevelNumber, seed, 0)
       IN  /\ pegs' = made.pegs
           /\ rendered' = made.rendered
    /\ pc' = "checkMinimum"
    /\ UNCHANGED << currentLevelNumber, levelNumber, seed, pegSpacing, loc, lastFilter,
                    gameVars, queryVars >>

\* the locals of the createRandomPattern loop of generateProceduralLevel
RandomLoop(n) ==
    [loop |-> "random", count |-> 10 + (n \div 2) * 5, attempts |-> 0, placed |-> << >>]

\* levelNumber === 3: generateAdvancedLevel picks two or three patterns and
\* calls generateProceduralLevel with them
AdvancedLevel ==
    /\ pc = "assemble"
    /\ levelNumber = 3
    /\ LET selectedPatterns == AdvancedPatterns(availablePatternsOf(levelNumber), seed, 100)
           made == ProceduralPatterns(levelNumber, Len(selectedPatterns), selectedPatterns,
                                      pegSpacing, currentLevelNumber, seed, 0)
       IN  /\ pegs' = made.pegs
           /\ rendered' = made.rendered
    /\ loc' = RandomLoop(levelNumber)
    /\ pc' = "random"
    /\ UNCHANGED << currentLevelNumber, levelNumber, seed, pegSpacing, lastFilter,
                    gameVars, queryVars >>

\* levelNumber > 3: generateProceduralLevel up to the random pattern
ProceduralLevel ==
    /\ pc = "assemble"
    /\ levelNumber > 3
    /\ LET patternCount == Min(maxPatterns, 1 + (levelNumber \div 2))
           made == ProceduralPatterns(levelNumber, patternCount,
                                      availablePatternsOf(levelNumber), pegSpacing,
                                      currentLevelNumber, seed, 0)
       IN  /\ pegs' = made.pegs
           /\ rendered' = made.rendered
    /\ loc' = RandomLoop(levelNumber)
    /\ pc' = "random"
    /\ UNCHANGED << currentLevelNumber, levelNumber, seed, pegSpacing, lastFilter,
                    gameVars, queryVars >>

\* pegSpacing * 1.5, * 0.8, * 1.2 and * 0.9
Times(spacing, tenths) == (spacing * tenths) \div 10

\* the while condition of createRandomPattern without its attempt cap
RandomContinuesUncapped(l) == Len(l.placed) < l.count

\* the while conditions of createRandomPattern and createFillerPegs
RandomContinues(l) == Len(l.placed) < l.count /\ l.attempts < l.count * 10
FillerContinues(l) == Len(l.placed) < l.count /\ l.attempts < l.count * 20

\* one pass of the while loop of createRandomPattern, as generateProceduralLevel
\* calls it: minX = horizontalMargin, minY = 150, maxX = canvasWidth -
\* horizontalMargin, maxY = canvasHeight - 150, minDistance = pegSpacing * 1.5
RandomAttempt ==
    /\ pc = "random"
    /\ RandomContinues(loc)
    /\ LET attempts == loc.attempts + 1
           d == RandomDraws + 3 * attempts
           x == RandBetween(Rand(seed, d), margin, canvasWidth - margin)
           y == RandBetween(Rand(seed, d + 1), Px(150), canvasHeight - Px(150))
           tooClose == TooClose(loc.placed, x, y, Times(pegSpacing, 15))
           colorIndex == RandInt(Rand(seed, d + 2), ColorsOf(currentLevelNumber))
       IN  loc' = [loc EXCEPT !.attempts = attempts,
                              !.placed = IF tooClose THEN @
                                         ELSE Append(@, Peg(x, y, colorIndex))]
    /\ UNCHANGED << pc, currentLevelNumber, levelNumber, seed, pegSpacing, pegs,
                    lastFilter, rendered, gameVars, queryVars >>

\* the locals of a removePegOverlaps pass called from `caller`
FilterLoop(input, minDistance, caller, depth) ==
    [loop |-> "filter", input |-> input, i |-> 1, result |-> << >>,
     minDistance |-> minDistance, caller |-> caller, depth |-> depth]

\* the loop of createRandomPattern has ended: its pegs join the list, above
\* level 5 a challenge cluster follows, and removePegOverlaps is called
\* with pegSpacing * 0.8
ProceduralFinish ==
    /\ pc = "random"
    /\ ~RandomContinues(loc)
    /\ LET challengeCluster ==
               IF levelNumber > 5
               THEN createChallengeCluster(levelNumber, Times(pegSpacing, 8), seed,
                                           ClusterDraws)
               ELSE << >>
       IN  loc' = FilterLoop(pegs \o loc.placed \o challengeCluster,
                             Times(pegSpacing, 8), "generateProceduralLevel", 0)
    /\ pc' = "filter"
    /\ UNCHANGED << currentLevelNumber, levelNumber, seed, pegSpacing, pegs, lastFilter,
                    rendered, gameVars, queryVars >>

\* one pass of the outer loop of removePegOverlaps
FilterStep ==
    /\ pc = "filter"
    /\ loc.i <= Len(loc.input)
    /\ LET peg == loc.input[loc.i]
           tooClose == TooClose(loc.result, peg.x, peg.y, loc.minDistance)
       IN  loc' = [loc EXCEPT !.i = @ + 1,
                              !.result = IF tooClose THEN @ ELSE Append(@, peg)]
    /\ UNCHANGED << pc, currentLevelNumber, levelNumber, seed, pegSpacing, pegs,
                    lastFilter, rendered, gameVars, queryVars >>

\* removePegOverlaps has returned to generateProceduralLevel, which removes
\* the edge pegs and returns to generateLevel
ProceduralReturn ==
    /\ pc = "filter"
    /\ loc.i > Len(loc.input)
    /\ loc.caller = "generateProceduralLevel"
    /\ pegs' = removeEdgePegs(loc.result, pegRadius * 2)
    /\ lastFilter' = loc.minDistance
    /\ loc' = NoLoc
    /\ pc' = "checkMinimum"
    /\ UNCHANGED << currentLevelNumber, levelNumber, seed, pegSpacing, rendered,
                    gameVars, queryVars >>

\* generateLevel, lines 155-157
CheckMinimum ==
    /\ pc = "checkMinimum"
    /\ IF Len(pegs) < getMinimumPegCount(levelNumber)
       THEN /\ pc' = "ensure"
            /\ loc' = [loop |-> "ensure", depth |-> 0]
       ELSE /\ pc' = "balance"
            /\ loc' = NoLoc
    /\ UNCHANGED << currentLevelNumber, levelNumber, seed, pegSpacing, pegs, lastFilter,
                    rendered, gameVars, queryVars >>

\* ensureMinimumPegs up to the loop of createFillerPegs
EnsureMinimumPegs ==
    /\ pc = "ensure"
    /\ IF Len(pegs) >= getMinimumPegCount(levelNumber)
       THEN /\ pc' = "balance"
            /\ loc' = NoLoc
       ELSE /\ pc' = "filler"
            /\ loc' = [loop |-> "filler",
                       count |-> getMinimumPegCount(levelNumber) - Len(pegs),
                       attempts |-> 0, placed |-> << >>, depth |-> loc.depth]
    /\ UNCHANGED << currentLevelNumber, levelNumber, seed, pegSpacing, pegs, lastFilter,
                    rendered, gameVars, queryVars >>

\* one pass of the while loop of createFillerPegs over the play area, with
\* minDistance = pegSpacing * 1.2
FillerAttempt ==
    /\ pc = "filler"
    /\ FillerContinues(loc)
    /\ LET attempts == loc.attempts + 1
           d == FillerDraws(loc.depth) + 4 * attempts
           availableColors == getAvailableColors(levelNumber)
           x == RandBetween(Rand(seed, d), margin, canvasWidth - margin)
           y == RandBetween(Rand(seed, d + 1), playAreaTop, playAreaBottom)
           minDistance == Times(pegSpacing, 12)
           tooClose == TooClose(pegs, x, y, minDistance)
                         \/ TooClose(loc.placed, x, y, minDistance)
           colorCounts == ColorCounts(pegs \o loc.placed, availableColors)
           colorIndex == IF Rand(seed, d + 2) < 700
                         THEN MinColorIndex(colorCounts, availableColors)
                         ELSE RandInt(Rand(seed, d + 3), availableColors)
       IN  loc' = [loc EXCEPT !.attempts = attempts,
                              !.placed = IF tooClose THEN @
                                         ELSE Append(@, Peg(x, y, colorIndex))]
    /\ UNCHANGED << pc, currentLevelNumber, levelNumber, seed, pegSpacing, pegs,
                    lastFilter, rendered, gameVars, queryVars >>

\* ensureMinimumPegs calling removePegOverlaps with pegSpacing * 1.5
FillerFinishWide ==
    /\ pc = "filler"
    /\ ~FillerContinues(loc)
    /\ loc' = FilterLoop(pegs \o loc.placed, Times(pegSpacing, 15), "ensureMinimumPegs",
                         loc.depth)
    /\ pc' = "filter"
    /\ UNCHANGED << currentLevelNumber, levelNumber, seed, pegSpacing, pegs, lastFilter,
                    rendered, gameVars, queryVars >>

\* createFillerPegs has returned: ensureMinimumPegs appends its pegs and
\* calls removePegOverlaps with pegSpacing * 0.8
FillerFinish ==
    /\ pc = "filler"
    /\ ~FillerContinues(loc)
    /\ loc' = FilterLoop(pegs \o loc.placed, Times(pegSpacing, 8), "ensureMinimumPegs",
                         loc.depth)
    /\ pc' = "filter"
    /\ UNCHANGED << currentLevelNumber, levelNumber, seed, pegSpacing, pegs, lastFilter,
                    rendered, gameVars, queryVars >>

\* removePegOverlaps has returned to ensureMinimumPegs, which removes the
\* edge pegs and, still short with a spacing above pegRadius * 3, calls
\* itself with the spacing times 0.9
EnsureReturn ==
    /\ pc = "filter"
    /\ loc.i > Len(loc.input)
    /\ loc.caller = "ensureMinimumPegs"
    /\ LET filteredPegs == removeEdgePegs(loc.result, pegRadius * 2)
       IN  /\ pegs' = filteredPegs
           /\ IF Len(filteredPegs) < getMinimumPegCount(levelNumber)
                 /\ pegSpacing > pegRadius * 3
              THEN /\ pegSpacing' = Times(pegSpacing, 9)
                   /\ loc' = [loop |-> "ensure", depth |-> loc.depth + 1]
                   /\ pc' = "ensure"
              ELSE /\ pegSpacing' = pegSpacing
                   /\ loc' = NoLoc
                   /\ pc' = "balance"
    /\ lastFilter' = loc.minDistance
    /\ UNCHANGED << currentLevelNumber, levelNumber, seed, rendered, gameVars, queryVars >>

\* generateLevel, line 160
BalanceColors ==
    /\ pc = "balance"
    /\ pegs' = balanceColors(pegs, getAvailableColors(levelNumber), levelNumber, seed,
                             GradientDraws)
    /\ pc' = "done"
    /\ UNCHANGED << currentLevelNumber, levelNumber, seed, pegSpacing, loc, lastFilter,
                    rendered, gameVars, queryVars >>

\* the end of a generateLevel call clearing this.currentLevelNumber
EndGenerateLevelClearing ==
    /\ pc' = "idle"
    /\ levelNumber' = 0
    /\ seed' = 0
    /\ pegSpacing' = 0
    /\ pegs' = << >>
    /\ loc' = NoLoc
    /\ lastFilter' = 0
    /\ rendered' = << >>
    /\ currentLevelNumber' = 0

\* the end of a generateLevel call
EndGenerateLevel ==
    /\ pc' = "idle"
    /\ levelNumber' = 0
    /\ seed' = 0
    /\ pegSpacing' = 0
    /\ pegs' = << >>
    /\ loc' = NoLoc
    /\ lastFilter' = 0
    /\ rendered' = << >>
    /\ UNCHANGED currentLevelNumber

\* generateLevel returns to a direct caller
Return ==
    /\ pc = "done"
    /\ gpc = "script"
    /\ EndGenerateLevel
    /\ UNCHANGED << gameVars, queryVars >>

\* the steps of a running generateLevel call
GeneratorStep ==
    \/ SimpleLevel
    \/ IntermediateLevel
    \/ AdvancedLevel
    \/ ProceduralLevel
    \/ RandomAttempt
    \/ ProceduralFinish
    \/ FilterStep
    \/ ProceduralReturn
    \/ CheckMinimum
    \/ EnsureMinimumPegs
    \/ FillerAttempt
    \/ FillerFinish
    \/ EnsureReturn
    \/ BalanceColors

Next ==
    \/ \E n \in Levels, s \in Seeds : GenerateLevel(n, s)
    \/ GeneratorStep
    \/ Return

Spec == Init /\ [][Next]_vars

\* ------------------------------------------------------------- the game
\* Engine.update reports at most this many first hits of pegs in one frame
MaxHitsPerFrame == 2
\* the score a level may hold at most when the level-skip key is used, so
\* that the score carried into the next level stays bounded
MaxCarriedScore == 0
\* continueToNextLevel is followed while the currency is at most this
MaxCurrency == 1000
\* a ball reaches the bucket at most this often in one frame, and only while
\* the score stays at most MaxBucketScore
MaxBucketHitsPerFrame == 1
MaxBucketScore == 30

\* resetLevel up to its call of generateLevel: the pegs and the balls leave
\* the world, the counts are cleared, the thresholds of the level are drawn,
\* and generateLevel(currentLevel) starts
BeginResetLevel(level, s) ==
    /\ gpc' = "reset"
    /\ currentLevel' = level
    /\ pegCountsByColor' = Zeros
    /\ hitPegCountsByColor' = Zeros
    /\ colorThresholds' = getColorThresholds(level, s, ThresholdDraws)
    /\ board' = << >>
    /\ hits' = 0
    /\ activeBalls' = 0
    /\ BeginGenerateLevel(level, s)

\* the resetLevel() call of the script, at currentLevel = 1
Load(s) ==
    /\ gpc = "script"
    /\ pc = "idle"
    /\ BeginResetLevel(currentLevel, s)
    /\ UNCHANGED << levelCompleted, shopActive, shopTimer, score, currency,
                    totalRunBalls, ballsRemaining, skipTimer, gameOver,
                    queryVars >>

\* createPeg giving the peg the color after the one of its position
createPegNextColor(pos, level, s, i) ==
    (pos.colorIndex + 1) % getAvailableColorsForLevel(level)

\* createPeg(x, y, colorIndex): the colorGroup of peg i of the level
createPeg(pos, level, s, i) ==
    LET availableColors == getAvailableColorsForLevel(level)
    IN  IF pos.colorIndex >= availableColors
        THEN RandInt(Rand(s, CreatePegDraws + i), availableColors)
        ELSE pos.colorIndex

\* generateLevel has returned to resetLevel: the pegs are created and
\* counted by the colorIndex of their position; the level is no longer
\* completed and the balls of the run are dealt
InstallLevel ==
    /\ gpc = "reset"
    /\ pc = "done"
    /\ board' = [ i \in 1..Len(pegs) |-> createPeg(pegs[i], currentLevel, seed, i) ]
    /\ pegCountsByColor' = [ c \in 0..7 |-> CountColor(pegs, c) ]
    /\ levelCompleted' = FALSE
    /\ totalRunBalls' = (IF currentLevel = 1 THEN 10 ELSE totalRunBalls)
    /\ ballsRemaining' = totalRunBalls'
    /\ gpc' = "play"
    /\ EndGenerateLevel
    /\ UNCHANGED << currentLevel, colorThresholds, hitPegCountsByColor, hits, shopActive,
                    shopTimer, score, currency, skipTimer, gameOver, activeBalls,
                    queryVars >>

\* the allColorsHitThreshold of checkLevelCompletion: no color i < 8 has
\* hit / count (1 when the color has no pegs) below its threshold
AllColorsHitThreshold(counts, hitCounts, thresholds) ==
    \A i \in 0..7 :
        IF counts[i] > 0
        THEN ~(hitCounts[i] * 10000 < thresholds[i] * counts[i])
        ELSE ~(10000 < thresholds[i])

\* the collisionStart handler on a ball-peg pair: a peg not hit before
\* is marked hit, counted for its colorGroup and worth 10 points; a peg
\* already hit is left alone
PegCollision(isHit) ==
    IF ~isHit THEN [hit |-> 1, score |-> 10] ELSE [hit |-> 0, score |-> 0]

\* hitPegCountsByColor after the collisionStart handler has run for the
\* pegs hits - r + 1 .. hits + k, the first r of them hit before
HitCountsAfter(k, r) ==
    [ c \in 0..7 |->
        hitPegCountsByColor[c]
          + Cardinality({ i \in (hits - r + 1)..(hits + k) :
                            board[i] = c /\ PegCollision(i <= hits).hit = 1 }) ]

\* one frame of gameLoop: Engine.update reports the first hits of k pegs
\* (the pegs are reached in the order of the list), r collisions with the
\* pegs hit last and b collisions of a ball with the bucket, 20 points
\* each; out balls have fallen below the canvas and are removed; then
\* checkLevelCompletion runs and the game-over test follows, which counts
\* the balls in the list of bodies taken before the removal.
GameLoop(k, r, b, out) ==
    LET gain == k * PegCollision(FALSE).score + r * PegCollision(TRUE).score + 20 * b
    IN
    /\ gpc = "play"
    /\ hits + k <= Len(board)
    /\ r <= hits
    /\ out <= activeBalls
    /\ hits' = hits + k
    /\ hitPegCountsByColor' = HitCountsAfter(k, r)
    /\ activeBalls' = activeBalls - out
    /\ IF ~levelCompleted
          /\ AllColorsHitThreshold(pegCountsByColor, HitCountsAfter(k, r), colorThresholds)
       THEN /\ levelCompleted' = TRUE
            /\ score' = score + gain + (500 + currentLevel * 50)
            /\ currency' = currency + score'
            /\ shopTimer' = TRUE
       ELSE /\ score' = score + gain
            /\ UNCHANGED << levelCompleted, currency, shopTimer >>
    /\ gameOver' = (\/ gameOver
                    \/ /\ ballsRemaining <= 0
                       /\ activeBalls = 0
                       /\ ~levelCompleted'
                       /\ ~shopActive
                       /\ totalRunBalls <= 0)
    /\ UNCHANGED << genVars, gpc, currentLevel, colorThresholds, pegCountsByColor, board,
                    shopActive, totalRunBalls, ballsRemaining, skipTimer, queryVars >>

\* the setTimeout of checkLevelCompletion fires
ShopTimer ==
    /\ gpc = "play"
    /\ shopTimer
    /\ shopActive' = TRUE
    /\ shopTimer' = FALSE
    /\ UNCHANGED << genVars, gpc, currentLevel, colorThresholds, pegCountsByColor,
                    hitPegCountsByColor, board, hits, levelCompleted, score, currency,
                    totalRunBalls, ballsRemaining, skipTimer, gameOver, activeBalls,
                    queryVars >>

\* the keydown handler on Enter with the level typed after 'L': skipToLevel
\* (one such timer is pending at a time)
SkipToLevel(level) ==
    /\ gpc = "play"
    /\ level > 0
    /\ ~levelCompleted
    /\ level # currentLevel
    /\ skipTimer = 0
    /\ skipTimer' = level
    /\ UNCHANGED << genVars, gpc, currentLevel, colorThresholds, pegCountsByColor,
                    hitPegCountsByColor, board, hits, levelCompleted, shopActive, shopTimer,
                    score, currency, totalRunBalls, ballsRemaining, gameOver, activeBalls,
                    queryVars >>

\* the setTimeout of skipToLevel fires: currentLevel = level; resetLevel()
SkipTimer(s) ==
    /\ gpc = "play"
    /\ skipTimer # 0
    /\ skipTimer' = 0
    /\ BeginResetLevel(skipTimer, s)
    /\ UNCHANGED << levelCompleted, shopActive, shopTimer, score, currency,
                    totalRunBalls, ballsRemaining, gameOver, queryVars >>

\* the click on the continue button of the shop: continueToNextLevel
ContinueToNextLevel(s) ==
    /\ gpc = "play"
    /\ ~gameOver
    /\ shopActive
    /\ shopActive' = FALSE
    /\ levelCompleted' = FALSE
    /\ score' = 0
    /\ BeginResetLevel(currentLevel + 1, s)
    /\ UNCHANGED << shopTimer, currency, totalRunBalls, ballsRemaining, skipTimer,
                    gameOver, queryVars >>

\* a frame with hits is followed while no skip is pending or the score
\* stays at most MaxCarriedScore, one with bucket hits while the score
\* stays at most MaxBucketScore; the level-skip key is used while score and
\* currency are at most MaxCarriedScore, the continue button while the
\* level is below MaxLevel and the currency at most MaxCurrency

NextGame ==
    \/ \E s \in Seeds : Load(s)
    \/ GeneratorStep
    \/ InstallLevel
    \/ \E k \in 0..MaxHitsPerFrame, r \in 0..MaxHitsPerFrame, b \in 0..MaxBucketHitsPerFrame :
          /\ k + b > 0 => (\/ skipTimer = 0
                           \/ score + k * PegCollision(FALSE).score + 20 * b <= MaxCarriedScore)
          /\ b > 0 => score + k * PegCollision(FALSE).score + 20 * b <= MaxBucketScore
          /\ GameLoop(k, r, b, 0)
    \/ ShopTimer
    \/ /\ score <= MaxCarriedScore
       /\ currency <= MaxCarriedScore
       /\ \E level \in Levels : SkipToLevel(level)
    \/ \E s \in Seeds : SkipTimer(s)
    \/ /\ currentLevel < MaxLevel
       /\ currency <= MaxCurrency
       /\ \E s \in Seeds : ContinueToNextLevel(s)

SpecGame == Init /\ [][NextGame]_vars

\* ------------------------------------------- direct calls of the helpers
\* the highest level of a direct call of a threshold or color helper
MaxQueryLevel == 30


\* levelGenerator.getColorThresholds(n) with random outcome s
GetColorThresholds(n, s) ==
    /\ query' = [fn |-> "getColorThresholds", level |-> n, seed |-> s]
    /\ answer' = getColorThresholds(n, s, ThresholdDraws)
    /\ UNCHANGED << genVars, gameVars >>

\* levelGenerator.getAvailableColors(n)
GetAvailableColors(n) ==
    /\ query' = [fn |-> "getAvailableColors", level |-> n, seed |-> 0]
    /\ answer' = getAvailableColors(n)
    /\ UNCHANGED << genVars, gameVars >>

\* getAvailableColorsForLevel(n) of game.js
GetAvailableColorsForLevel(n) ==
    /\ query' = [fn |-> "getAvailableColorsForLevel", level |-> n, seed |-> 0]
    /\ answer' = getAvailableColorsForLevel(n)
    /\ UNCHANGED << genVars, gameVars >>

NextQuery ==
    \/ \E n \in 1..MaxQueryLevel, s \in Seeds : GetColorThresholds(n, s)
    \/ \E n \in 1..MaxQueryLevel : GetAvailableColors(n)
    \/ \E n \in 1..MaxQueryLevel : GetAvailableColorsForLevel(n)

SpecQuery == Init /\ [][NextQuery]_vars

\* ------------------------------------------ direct calls of balanceColors
\* the highest level of a direct call of balanceColors, and the highest
\* share of the list one color is given on entry
MaxBalanceLevel == 3
MaxShare == 2


\* the number of pegs of each color in a list of n pegs split by shares: a
\* color of share k gets k units of n \div (sum of the shares), and what is
\* left goes to the last color of a positive share
RECURSIVE SumTo(_, _)
SumTo(f, c) == IF c < 0 THEN 0 ELSE f[c] + SumTo(f, c - 1)

ShareCounts(shares, n, availableColors) ==
    LET total == SumTo(shares, availableColors - 1)
        unit == n \div total
        last == CHOOSE c \in 0..(availableColors - 1) :
                    shares[c] > 0 /\ \A d \in (c + 1)..(availableColors - 1) : shares[d] = 0
    IN  [ c \in 0..(availableColors - 1) |->
            shares[c] * unit + (IF c = last THEN n - total * unit ELSE 0) ]

\* a list of getMinimumPegCount(level) pegs on a lattice inside the play
\* area, the pegs of one color next to each other
GivenPegs(level, shares, layout) ==
    LET availableColors == getAvailableColors(level)
        n == getMinimumPegCount(level)
        counts == ShareCounts(shares, n, availableColors)
        below(c) == SumTo(counts, c - 1)
        colorAt(k) == CHOOSE c \in 0..(availableColors - 1) :
                          below(c) < k /\ k <= below(c) + counts[c]
    IN  [ i \in 1..n |->
            Peg(margin + Px(30) + ((i - 1) % 12) * Px(45),
                Px(150) + ((i - 1) \div 12) * Px(45),
                colorAt(IF layout = "ascending" THEN i ELSE n + 1 - i)) ]


\* a call balanceColors(pegs, getAvailableColors(level), level) on a given list
CallBalanceColors(level, shares, layout, s) ==
    /\ pc = "idle"
    /\ gpc = "script"
    /\ \E c \in DOMAIN shares : shares[c] > 0
    /\ pegs' = GivenPegs(level, shares, layout)
    /\ levelNumber' = level
    /\ seed' = s
    /\ query' = [fn |-> "balanceColors", pegs |-> pegs']
    /\ pc' = "balance"
    /\ UNCHANGED << currentLevelNumber, pegSpacing, loc, lastFilter, rendered, gameVars,
                    answer >>

\* balanceColors returns to a direct caller
ReturnBalanced ==
    /\ pc = "done"
    /\ query.fn = "balanceColors"
    /\ EndGenerateLevel
    /\ query' = NoQuery
    /\ UNCHANGED << gameVars, answer >>

NextBalance ==
    \/ \E level \in 1..MaxBalanceLevel, layout \in { "ascending", "descending" } :
          \E shares \in [0..(getAvailableColors(level) - 1) -> 0..MaxShare],
             s \in (IF level > 3 THEN Seeds ELSE { 1 }) :
              CallBalanceColors(level, shares, layout, s)
    \/ BalanceColors
    \/ ReturnBalanced

SpecBalance == Init /\ [][NextBalance]_vars

\* ------------------------------------- direct calls of single stages
\* the longest list and the highest colorIndex given to the first stage of
\* balanceColors
MaxStageLen == 4
MaxColorIndex == 8

\* the first stage of balanceColors on a list of pegs of the given colors
CallBalanced(colors, availableColors) ==
    /\ query' = [fn |-> "balanced", availableColors |-> availableColors,
                 pegs |-> [ i \in 1..Len(colors) |->
                              Peg(margin + Px(30) + (i - 1) * Px(45), Px(150), colors[i]) ]]
    /\ answer' = Balanced(query'.pegs, availableColors)
    /\ UNCHANGED << genVars, gameVars >>

\* the most patterns asked of selectRandomPatternsForLevel
MaxCount == 4

\* selectRandomPatternsForLevel(availablePatterns, count, level) on the
\* patterns of the catalogue whose difficulty is in lo .. hi, with random
\* outcome s
CallSelect(lo, hi, count, level, s) ==
    /\ query' = [fn |-> "selectRandomPatternsForLevel", count |-> count, level |-> level,
                 availablePatterns |->
                     SelectSeq(PatternNames,
                               LAMBDA p : patternDifficulty(p) >= lo /\ patternDifficulty(p) <= hi)]
    /\ answer' = selectRandomPatternsForLevel(query'.availablePatterns, count, level, s, 0)
    /\ UNCHANGED << genVars, gameVars >>

\* divideCanvasIntoSections(count) with this.currentLevelNumber = level and
\* random outcome s
CallDivide(count, level, s) ==
    /\ query' = [fn |-> "divideCanvasIntoSections", count |-> count, level |-> level,
                 seed |-> s]
    /\ answer' = divideCanvasIntoSections(count, level, s, 0).secs
    /\ UNCHANGED << genVars, gameVars >>

\* ensureMinimumColorCounts(pegs, getAvailableColors(level), level) on a
\* list of getMinimumPegCount(level) pegs
CallEnsure(level, shares, layout) ==
    /\ \E c \in DOMAIN shares : shares[c] > 0
    /\ query' = [fn |-> "ensureMinimumColorCounts", level |-> level,
                 pegs |-> GivenPegs(level, shares, layout)]
    /\ answer' = ensureMinimumColorCounts(query'.pegs, getAvailableColors(level), level)
    /\ UNCHANGED << genVars, gameVars >>

\* the call returns
ReturnCall ==
    /\ query # NoQuery
    /\ query' = NoQuery
    /\ answer' = NoQuery
    /\ UNCHANGED << genVars, gameVars >>

\* one call at a time, each from the state the constructor leaves
NextCalls ==
    \/ /\ query = NoQuery
       /\ \/ \E n \in 0..MaxStageLen, availableColors \in { 4, 6, 8 } :
                \E colors \in [1..n -> 0..MaxColorIndex] :
                    CallBalanced(colors, availableColors)
          \/ \E lo \in 1..10, hi \in 1..10, count \in 0..MaxCount, level \in Levels, s \in Seeds :
                CallSelect(lo, hi, count, level, s)
          \/ \E count \in 1..MaxCount, level \in Levels, s \in Seeds :
                CallDivide(count, level, s)
          \/ \E level \in 1..(MaxBalanceLevel + 1), layout \in { "ascending", "descending" } :
                \E shares \in [0..(getAvailableColors(level) - 1) -> 0..MaxShare] :
                    CallEnsure(level, shares, layout)
    \/ ReturnCall

SpecCalls == Init /\ [][NextCalls]_vars

\* --------------------------- direct calls of generateProceduralLevel
\* the pattern pool of a direct call holds at most this many names
MaxPool == 2

\* generateProceduralLevel(levelNumber, patternCount, availablePatterns,
\* pegSpacing) called on the generator as it stands, with the first m
\* pattern names as the pool, the spacing of the level and random outcome s:
\* the call up to its createRandomPattern loop
CallProcedural(n, patternCount, m, s) ==
    /\ pc = "idle"
    /\ gpc = "script"
    /\ query' = [fn |-> "generateProceduralLevel", patternCount |-> patternCount,
                 availablePatterns |-> SubSeq(PatternNames, 1, m),
                 selectedPatterns |->
                     selectRandomPatternsForLevel(SubSeq(PatternNames, 1, m), patternCount,
                                                  n, s, 50)]
    /\ LET made == ProceduralPatterns(n, patternCount, SubSeq(PatternNames, 1, m),
                                      LevelSpacing(n), currentLevelNumber, s, 0)
       IN  /\ pegs' = made.pegs
           /\ rendered' = made.rendered
    /\ levelNumber' = n
    /\ seed' = s
    /\ pegSpacing' = LevelSpacing(n)
    /\ loc' = RandomLoop(n)
    /\ lastFilter' = 0
    /\ pc' = "random"
    /\ UNCHANGED << currentLevelNumber, gameVars, answer >>

\* ensureMinimumPegs(pegs, getMinimumPegCount(level), spacing of the level,
\* level, getAvailableColors(level)) on n pegs in rows of eight, from
\* (startX, 300) in steps of step, with random outcome s
CallEnsureMinimumPegs(level, n, startX, step, s) ==
    /\ pc = "idle"
    /\ gpc = "script"
    /\ pegs' = [ i \in 1..n |-> Peg(startX + ((i - 1) % 8) * step,
                                    Px(300) + ((i - 1) \div 8) * step, 0) ]
    /\ query' = [fn |-> "ensureMinimumPegs", pegs |-> pegs']
    /\ levelNumber' = level
    /\ seed' = s
    /\ pegSpacing' = LevelSpacing(level)
    /\ loc' = [loop |-> "ensure", depth |-> 0]
    /\ lastFilter' = 0
    /\ pc' = "ensure"
    /\ UNCHANGED << currentLevelNumber, rendered, gameVars, answer >>

\* the return statement of generateProceduralLevel or, from the outermost
\* ensureMinimumPegs, of ensureMinimumPegs in a direct call
ProceduralAnswer ==
    /\ pc = (IF query.fn = "ensureMinimumPegs" THEN "balance" ELSE "checkMinimum")
    /\ query # NoQuery
    /\ answer' = pegs
    /\ EndGenerateLevel
    /\ UNCHANGED << gameVars, query >>

\* the pegs of a direct removePegOverlaps call sit on the columns
\* 100 + 30 i, i <= MaxSpot, of the rows 200 and 240
MaxSpot == 2

\* removePegOverlaps(removePegOverlaps(list, d), d), the inner call first:
\* peg k of the list sits on spots[k] and carries colorIndex k - 1
CallRemovePegOverlaps(spots, d) ==
    /\ pc = "idle"
    /\ gpc = "script"
    /\ query' = [fn |-> "removePegOverlaps",
                 pegs |-> [ k \in DOMAIN spots |-> Peg(spots[k].x, spots[k].y, k - 1) ],
                 minDistance |-> d, pass |-> 1, first |-> << >>]
    /\ loc' = FilterLoop(query'.pegs, d, "removePegOverlaps", 0)
    /\ pc' = "filter"
    /\ UNCHANGED << currentLevelNumber, levelNumber, seed, pegSpacing, pegs, lastFilter,
                    rendered, gameVars, answer >>

\* the inner call returns its result to the outer call, the outer call to
\* the caller
RemovePegOverlapsReturn ==
    /\ pc = "filter"
    /\ loc.i > Len(loc.input)
    /\ loc.caller = "removePegOverlaps"
    /\ IF query.pass = 1
       THEN /\ query' = [query EXCEPT !.pass = 2, !.first = loc.result]
            /\ loc' = FilterLoop(loc.result, loc.minDistance, "removePegOverlaps", 0)
            /\ UNCHANGED << pc, answer >>
       ELSE /\ answer' = loc.result
            /\ loc' = NoLoc
            /\ pc' = "idle"
            /\ UNCHANGED query
    /\ UNCHANGED << currentLevelNumber, levelNumber, seed, pegSpacing, pegs, lastFilter,
                    rendered, gameVars >>

NextProcedural ==
    \/ /\ query = NoQuery
       /\ \E n \in Levels, patternCount \in 0..MaxCount, m \in 0..MaxPool, s \in Seeds :
              CallProcedural(n, patternCount, m, s)
    \/ RandomAttempt
    \/ ProceduralFinish
    \/ FilterStep
    \/ ProceduralReturn
    \/ ProceduralAnswer
    \/ /\ query = NoQuery
       /\ \E level \in { 1, MaxLevel }, s \in Seeds,
             row \in { << margin + Px(30), Px(60) >>, << margin, Px(60) >>,
                       << margin + Px(30), Px(10) >> } :
              \E n \in 0..MaxStageLen \cup { getMinimumPegCount(level) - 1 } :
                  CallEnsureMinimumPegs(level, n, row[1], row[2], s)
    \/ EnsureMinimumPegs
    \/ FillerAttempt
    \/ FillerFinish
    \/ EnsureReturn
    \/ /\ query = NoQuery
       /\ \E n \in 0..MaxStageLen, d \in { 0, Px(40), Px(50) } :
              \E spots \in [1..n -> { Peg(Px(100 + 30 * i), y, 0) :
                                         i \in 0..MaxSpot, y \in { Px(200), Px(240) } }] :
                  CallRemovePegOverlaps(spots, d)
    \/ RemovePegOverlapsReturn
    \/ /\ pc = "idle"
       /\ ReturnCall

SpecProcedural == Init /\ [][NextProcedural]_vars

\* ------------------------------------------------- the balls of a run
\* a launch that takes the ball from the level only, not from the run
LaunchFromLevelOnly ==
    /\ gpc = "play"
    /\ ~gameOver
    /\ ~shopActive
    /\ ballsRemaining > 0
    /\ ~levelCompleted
    /\ activeBalls' = activeBalls + 1
    /\ ballsRemaining' = ballsRemaining - 1
    /\ UNCHANGED << genVars, gpc, currentLevel, colorThresholds, pegCountsByColor,
                    hitPegCountsByColor, board, hits, levelCompleted, shopActive, shopTimer,
                    score, currency, totalRunBalls, skipTimer, gameOver, queryVars >>

\* the mousedown handler outside the shop: a ball is launched
Launch ==
    /\ gpc = "play"
    /\ ~gameOver
    /\ ~shopActive
    /\ ballsRemaining > 0
    /\ ~levelCompleted
    /\ activeBalls' = activeBalls + 1
    /\ ballsRemaining' = ballsRemaining - 1
    /\ totalRunBalls' = totalRunBalls - 1
    /\ UNCHANGED << genVars, gpc, currentLevel, colorThresholds, pegCountsByColor,
                    hitPegCountsByColor, board, hits, levelCompleted, shopActive, shopTimer,
                    score, currency, skipTimer, gameOver, queryVars >>

\* a purchase that charges the balls asked for, not the balls added
PurchaseBallsChargingCount(count) ==
    /\ gpc = "play"
    /\ ~gameOver
    /\ shopActive
    /\ query' = [fn |-> "purchaseBalls", count |-> count, currency |-> currency,
                 totalRunBalls |-> totalRunBalls, ballsRemaining |-> ballsRemaining]
    /\ LET maxBallsToAdd == Min(count, 10 - totalRunBalls)
       IN  IF currency >= 100 * count /\ ~(maxBallsToAdd <= 0)
           THEN /\ currency' = currency - 100 * count
                /\ totalRunBalls' = totalRunBalls + maxBallsToAdd
                /\ ballsRemaining' = ballsRemaining + maxBallsToAdd
                /\ answer' = TRUE
           ELSE /\ UNCHANGED << currency, totalRunBalls, ballsRemaining >>
                /\ answer' = FALSE
    /\ UNCHANGED << genVars, gpc, currentLevel, colorThresholds, pegCountsByColor,
                    hitPegCountsByColor, board, hits, levelCompleted, shopActive, shopTimer,
                    score, skipTimer, gameOver, activeBalls >>

\* purchaseBalls(count) in the open shop (the buy button passes 1); ballCost
\* is 100. The call is remembered with the values it found, and its result.
PurchaseBalls(count) ==
    /\ gpc = "play"
    /\ ~gameOver
    /\ shopActive
    /\ query' = [fn |-> "purchaseBalls", count |-> count, currency |-> currency,
                 totalRunBalls |-> totalRunBalls, ballsRemaining |-> ballsRemaining]
    /\ LET maxBallsToAdd == Min(count, 10 - totalRunBalls)
       IN  IF currency >= 100 * count /\ ~(maxBallsToAdd <= 0)
           THEN /\ currency' = currency - 100 * maxBallsToAdd
                /\ totalRunBalls' = totalRunBalls + maxBallsToAdd
                /\ ballsRemaining' = ballsRemaining + maxBallsToAdd
                /\ answer' = TRUE
           ELSE /\ UNCHANGED << currency, totalRunBalls, ballsRemaining >>
                /\ answer' = FALSE
    /\ UNCHANGED << genVars, gpc, currentLevel, colorThresholds, pegCountsByColor,
                    hitPegCountsByColor, board, hits, levelCompleted, shopActive, shopTimer,
                    score, skipTimer, gameOver, activeBalls >>

\* a restart that leaves the currency of the run before
RestartGameKeepingCurrency(s) ==
    /\ gpc = "play"
    /\ gameOver
    /\ score' = 0
    /\ totalRunBalls' = 10
    /\ ballsRemaining' = 10
    /\ levelCompleted' = FALSE
    /\ gameOver' = FALSE
    /\ shopActive' = FALSE
    /\ BeginResetLevel(1, s)
    /\ UNCHANGED << shopTimer, skipTimer, currency, queryVars >>

\* the mousedown handler when the game is over: restartGame
RestartGame(s) ==
    /\ gpc = "play"
    /\ gameOver
    /\ score' = 0
    /\ currency' = 0
    /\ totalRunBalls' = 10
    /\ ballsRemaining' = 10
    /\ levelCompleted' = FALSE
    /\ gameOver' = FALSE
    /\ shopActive' = FALSE
    /\ BeginResetLevel(1, s)
    /\ UNCHANGED << shopTimer, skipTimer, queryVars >>

\* the run is followed with the random outcomes 1 .. MaxRunSeed, on the
\* levels up to MaxRunLevel, with at most MaxActiveBalls balls in the world
\* and purchases of up to MaxPurchaseCount balls. A frame has no hit, or the
\* MaxRunHits first hits of a ball on a level not yet completed; a skip is
\* requested while score and currency are at most MaxCarriedScore, and the
\* shop is left while the currency is at most MaxCurrency and no skip is
\* pending
MaxRunSeed == 1
MaxRunLevel == 2
MaxRunHits == 24
MaxActiveBalls == 1
MaxPurchaseCount == 2

\* the game with its balls; a handler runs to its end before the next
NextRun ==
    \/ /\ query = NoQuery
       /\ \/ \E s \in 1..MaxRunSeed : Load(s)
          \/ GeneratorStep
          \/ InstallLevel
          \/ \E k \in { 0, MaxRunHits }, out \in 0..MaxActiveBalls :
                 /\ k > 0 => (activeBalls > 0 /\ ~levelCompleted)
                 /\ GameLoop(k, 0, 0, out)
          \/ ShopTimer
          \/ /\ score <= MaxCarriedScore
             /\ currency <= MaxCarriedScore
             /\ \E level \in 1..MaxRunLevel : SkipToLevel(level)
          \/ \E s \in 1..MaxRunSeed : SkipTimer(s)
          \/ /\ currentLevel < MaxRunLevel
             /\ currency <= MaxCurrency
             /\ skipTimer = 0
             /\ \E s \in 1..MaxRunSeed : ContinueToNextLevel(s)
          \/ /\ activeBalls < MaxActiveBalls
             /\ Launch
          \/ \E count \in 1..MaxPurchaseCount : PurchaseBalls(count)
          \/ \E s \in 1..MaxRunSeed : RestartGame(s)
    \/ ReturnCall

SpecRun == Init /\ [][NextRun]_vars

\* ============================================================ properties
Returned == pc = "done"
AvailableHere == getAvailableColors(levelNumber)

\* C1: every peg of the list generateLevel(n) returns has an integer
\* colorIndex c with 0 <= c < getAvailableColors(n), gradient levels included.
C1_ColorRange ==
    Returned =>
        \A i \in 1..Len(pegs) : pegs[i].colorIndex \in 0..(AvailableHere - 1)

\* a returned level above 3 (recolored by applyColorGradient) with a peg of
\* a negative colorIndex
C1_NegativeColor ==
    /\ Returned
    /\ levelNumber > 3
    /\ \E i \in 1..Len(pegs) : pegs[i].colorIndex < 0

\* C2: after balanceColors on a list of at least getMinimumPegCount(level)
\* pegs, every available color has at least max(3, floor(5 - 0.1 level))
\* pegs (color 5 two more on level 3), whatever the colors on entry.
C2_PerColorMinimum ==
    (Returned /\ Len(pegs) >= getMinimumPegCount(levelNumber)) =>
        \A c \in 0..(AvailableHere - 1) :
            CountColor(pegs, c) >= AdjustedMinimum(c, levelNumber)

\* balanceColors has returned a list in which a color that entered with
\* enough pegs is below the minimum
C2_DonorDrained ==
    /\ Returned
    /\ query.fn = "balanceColors"
    /\ \E c \in 0..(AvailableHere - 1) :
          /\ CountColor(query.pegs, c) >= AdjustedMinimum(c, levelNumber)
          /\ CountColor(pegs, c) < AdjustedMinimum(c, levelNumber)

\* C3: every peg generateLevel(n) returns keeps 2 * pegRadius clear of the
\* play area sides: horizontalMargin + 2 pegRadius <= x <= canvasWidth -
\* horizontalMargin - 2 pegRadius and 2 pegRadius <= y <= canvasHeight - 2 pegRadius.
C3_EdgeClearance ==
    Returned =>
        \A i \in 1..Len(pegs) :
            /\ pegs[i].x >= margin + 2 * pegRadius
            /\ pegs[i].x <= canvasWidth - margin - 2 * pegRadius
            /\ pegs[i].y >= 2 * pegRadius
            /\ pegs[i].y <= canvasHeight - 2 * pegRadius

\* level 1 returned with no filtering pass and a peg left of the clearance
C3_LevelOneEdgePeg ==
    /\ Returned
    /\ levelNumber = 1
    /\ lastFilter = 0
    /\ \E i \in 1..Len(pegs) : pegs[i].x < margin + 2 * pegRadius

\* two positions are at least d apart
Apart(p, q, d) ==
    LET dx == Abs(p.x - q.x)
        dy == Abs(p.y - q.y)
    IN  dx >= d \/ dy >= d \/ dx * dx + dy * dy >= d * d

\* the level spacing after k reductions by 10%
RECURSIVE Reduced(_, _)
Reduced(spacing, k) == IF k = 0 THEN spacing ELSE Reduced(Times(spacing, 9), k - 1)

\* the retries of ensureMinimumPegs a call can make
MaxRetries == 8

\* C4: no two pegs generateLevel(n) returns are closer than 0.8 times the
\* spacing in force at the last overlap-filtering pass (the level spacing
\* reduced by 10% per ensureMinimumPegs retry), or 0.8 times the level
\* spacing when the call ran no filtering pass.
C4_NoOverlap ==
    Returned =>
        /\ \E k \in 0..MaxRetries : pegSpacing = Reduced(LevelSpacing(levelNumber), k)
        /\ lastFilter \in { 0, Times(pegSpacing, 8) }
        /\ \A i, j \in 1..Len(pegs) :
              i < j => Apart(pegs[i], pegs[j], Times(pegSpacing, 8))

\* a returned list of a call whose last filtering pass ran at a reduced spacing
C4_FilteredAfterRetry ==
    /\ Returned
    /\ lastFilter # 0
    /\ pegSpacing < LevelSpacing(levelNumber)
    /\ Len(pegs) >= getMinimumPegCount(levelNumber)

\* C5: generatePatternInSection, given the catalog's function of a pattern
\* name, takes that pattern's branch and makes its create call; it never
\* falls through every branch for a catalog pattern.
C5_CatalogDispatch ==
    \A k \in 1..Len(rendered) :
        rendered[k].pattern \in DOMAIN patterns => rendered[k].call # NoCall

\* level 2 has passed the catalog functions of grid and checkerboard and
\* neither call reached a create function
C5_LevelTwoFallsThrough ==
    /\ levelNumber = 2
    /\ Len(rendered) = 2
    /\ rendered[1].pattern = "grid"
    /\ rendered[1].func = patterns["grid"]
    /\ rendered[1].call = NoCall
    /\ rendered[2].call = NoCall

Playing == gpc = "play"
AllPegsHit == Len(board) > 0 /\ hits = Len(board)

\* C6: every level is completable: with the thresholds and pegs resetLevel
\* installs together, once every peg is hit checkLevelCompletion has set
\* levelCompleted; a color without pegs asks for nothing (the threshold of an
\* index >= availableColors is 0, and no threshold is above a ratio of 1).
C6_Completable ==
    Playing =>
        /\ AllPegsHit => levelCompleted
        /\ \A c \in 0..7 :
              /\ c >= getAvailableColorsForLevel(currentLevel) => colorThresholds[c] = 0
              /\ pegCountsByColor[c] = 0 => colorThresholds[c] <= 10000

\* every peg of a level has been hit, one of its colors has no pegs, and the
\* level is completed
C6_AllHitCompleted ==
    /\ Playing
    /\ AllPegsHit
    /\ levelCompleted
    /\ \E c \in 0..7 : pegCountsByColor[c] = 0

Thresholds == query.fn = "getColorThresholds"

\* C7: for every level n and color c < getAvailableColors(n),
\* getColorThresholds(n)[c] lies in [0.20, 0.85] whatever the jitter, and the
\* base threshold is non-decreasing in n: 0.25 to 0.40 over levels 1-5, 0.40
\* to 0.55 over 6-10, 0.55 to 0.70 over 11-15, 0.70 rising to the cap 0.80.
C7_ThresholdBounds ==
    Thresholds =>
        LET n == query.level
            at(k) == 2500 + 375 * (k - 1)
        IN  /\ \A c \in 0..(getAvailableColors(n) - 1) :
                  answer[c] >= 2000 /\ answer[c] <= 8500
            /\ n > 1 => ScaledThreshold(n - 1) <= ScaledThreshold(n)
            /\ ScaledThreshold(n) <= ScaledThreshold(n + 1)
            /\ n <= 5 => ScaledThreshold(n) = at(n)
            /\ (n >= 6 /\ n <= 10) => ScaledThreshold(n) = at(n - 1)
            /\ (n >= 11 /\ n <= 15) => ScaledThreshold(n) = at(n - 2)
            /\ n >= 16 => ScaledThreshold(n) = Min(8000, 7000 + 100 * (n - 16))

\* thresholds of a level in the last band, where the base is at its cap and
\* a color's threshold carries delta and jitter
C7_JitteredAtCap ==
    /\ Thresholds
    /\ query.level > 26
    /\ ScaledThreshold(query.level) = 8000
    /\ answer[0] > 8000
    /\ \E c \in 1..7 : answer[c] # 0 /\ answer[c] # 8000

\* C8: on a level n <= 3 getColorThresholds(n) applies no delta and no
\* jitter: every entry below getAvailableColors(n) is the base threshold of
\* the level (0.25 on level 1); on every level the entries from
\* getAvailableColors(n) on are 0, in an array of 8.
C8_EarlyLevelsExact ==
    Thresholds =>
        LET n == query.level
        IN  /\ DOMAIN answer = 0..7
            /\ \A c \in 0..7 : c >= getAvailableColors(n) => answer[c] = 0
            /\ n <= 3 =>
                  \A c \in 0..(getAvailableColors(n) - 1) :
                      answer[c] = 2500 + 375 * (n - 1)

\* the thresholds of level 3: six entries at the base, two at 0
C8_LevelThree ==
    /\ Thresholds
    /\ query.level = 3
    /\ answer[0] = 3250
    /\ answer[5] = 3250
    /\ answer[6] = 0

\* the step function of the color progression
ColorSteps(n) == IF n <= 2 THEN 4 ELSE IF n <= 10 THEN 6 ELSE 8

\* C9: the available colors are 4 on levels 1-2, 6 on levels 3-10 and 8 from
\* level 11 on, and getAvailableColors and the game's
\* getAvailableColorsForLevel return the same value for every level.
C9_ColorSteps ==
    /\ query.fn = "getAvailableColors" =>
          /\ answer = ColorSteps(query.level)
          /\ answer = getAvailableColorsForLevel(query.level)
    /\ query.fn = "getAvailableColorsForLevel" =>
          /\ answer = ColorSteps(query.level)
          /\ answer = getAvailableColors(query.level)

\* the game's helper has answered 8 for level 11
C9_GameEightColors ==
    /\ query.fn = "getAvailableColorsForLevel"
    /\ query.level = 11
    /\ answer = 8
    /\ getAvailableColors(10) = 6

\* a generateLevel call is running
Running == pc \notin { "idle", "done" }

\* the loops of a running call are within their attempt caps, the filter is
\* within its list, and the recursion of ensureMinimumPegs within its depth
C10_LoopBounds ==
    /\ loc.loop = "random" =>
          loc.attempts <= loc.count * 10 /\ Len(loc.placed) <= loc.count
    /\ loc.loop = "filler" =>
          /\ loc.attempts <= loc.count * 20 /\ Len(loc.placed) <= loc.count
          /\ loc.depth <= MaxRetries
    /\ loc.loop = "filter" => loc.i <= Len(loc.input) + 1
    /\ pc = "random" => Len(rendered) \in 1..maxPatterns

\* ensureMinimumPegs calls itself only with the list short and the spacing
\* above 3 * pegRadius, and with the spacing times 0.9
C10_Recursion ==
    (pc = "filter" /\ pc' = "ensure") =>
        /\ Len(pegs') < getMinimumPegCount(levelNumber)
        /\ pegSpacing > 3 * pegRadius
        /\ pegSpacing' = (pegSpacing * 9) \div 10

\* what is left of a running call, as a tuple of naturals in lexicographic
\* order: the phase, the spacing of ensureMinimumPegs, the stage inside one
\* ensureMinimumPegs call, and the passes left to the loop in progress
Rank ==
    CASE pc = "assemble" -> << 5, 0, 0, 0 >>
      [] pc = "random" -> << 4, 0, 0, loc.count * 10 - loc.attempts >>
      [] pc = "filter" /\ loc.caller = "generateProceduralLevel" ->
           << 3, 0, 0, Len(loc.input) + 1 - loc.i >>
      [] pc = "checkMinimum" -> << 2, 0, 0, 0 >>
      [] pc = "ensure" -> << 1, pegSpacing, 3, 0 >>
      [] pc = "filler" -> << 1, pegSpacing, 2, loc.count * 20 - loc.attempts >>
      [] pc = "filter" /\ loc.caller = "ensureMinimumPegs" ->
           << 1, pegSpacing, 1, Len(loc.input) + 1 - loc.i >>
      [] pc = "balance" -> << 0, 0, 1, 0 >>
      [] OTHER -> << 0, 0, 0, 0 >>

LexLess(a, b) ==
    \E k \in 1..4 : a[k] < b[k] /\ \A j \in 1..(k - 1) : a[j] = b[j]

\* every step of a running call lowers the rank
C10_Decreases == Running => LexLess(Rank', Rank)

\* a running call can take a step: the guards of the steps at its position
\* cover every case
C10_CanStep ==
    /\ \A k \in 1..4 : Rank[k] >= 0
    /\ pc = "assemble" => levelNumber >= 1
    /\ pc = "random" => loc.loop = "random"
    /\ pc = "filler" => loc.loop = "filler"
    /\ pc = "ensure" => loc.loop = "ensure"
    /\ pc = "filter" =>
          /\ loc.loop = "filter"
          /\ loc.caller \in { "generateProceduralLevel", "ensureMinimumPegs" }
    /\ pc \in { "idle", "assemble", "random", "filter", "checkMinimum", "ensure",
                "filler", "balance", "done" }

\* C10: every call generateLevel(n) terminates and returns a list without
\* throwing: createRandomPattern stops within 10 * count attempts,
\* createFillerPegs within 20 * count, the sections reach their count, and
\* ensureMinimumPegs recurses only while the list is short and the spacing
\* above 3 * pegRadius, at 0.9 times the spacing. Every step of a call lowers
\* a rank that cannot fall forever, and a running call always has a step.
C10_Terminates ==
    /\ []C10_LoopBounds
    /\ []C10_CanStep
    /\ [][C10_Recursion]_vars
    /\ [][C10_Decreases]_vars

\* a call has returned a list shorter than the minimum after its filler loop
\* ran out of attempts at a spacing not above 3 * pegRadius
C10_ReturnedShort ==
    /\ Returned
    /\ Len(pegs) < getMinimumPegCount(levelNumber)
    /\ pegSpacing <= 3 * pegRadius
    /\ lastFilter # 0

\* C11: the game goes to another level only by meeting the color
\* thresholds: whenever currentLevel changes to a different level,
\* checkLevelCompletion has completed the level being left, every color's
\* hit fraction having reached the threshold of that level.
C11_AdvanceByThresholds ==
    [][ currentLevel' # currentLevel =>
          /\ levelCompleted
          /\ AllColorsHitThreshold(pegCountsByColor, hitPegCountsByColor, colorThresholds)
      ]_vars

\* the level-skip timer has taken the game to another level with no peg of
\* the level left hit
C11_SkippedAhead ==
    /\ gpc = "reset"
    /\ currentLevel = 2
    /\ currency = 0
    /\ ~levelCompleted

\* C12: each peg is scored at most once. No color ever has more hit pegs
\* counted than pegs, in every reachable state and across level resets; and
\* in every frame of a level the hit counts grow by exactly the pegs newly
\* marked hit, each worth 10 points, a collision with a peg already hit
\* changes neither, and each ball-bucket collision adds 20 (the level bonus
\* comes on top in the frame that completes the level).
C12_HitsWithinPegs ==
    \A c \in 0..7 : hitPegCountsByColor[c] <= pegCountsByColor[c]

C12_Scoring ==
    (gpc = "play" /\ gpc' = "play") =>
        LET marked == hits' - hits
            bonus == IF levelCompleted' /\ ~levelCompleted
                     THEN 500 + currentLevel * 50 ELSE 0
        IN  /\ SumTo(hitPegCountsByColor', 7) = SumTo(hitPegCountsByColor, 7) + marked
            /\ \E b \in 0..MaxBucketHitsPerFrame :
                  score' = score + 10 * marked + 20 * b + bonus

C12_ScoredOnce == []C12_HitsWithinPegs /\ [][C12_Scoring]_vars

\* a peg of colorGroup -1 has been hit: the handler has added 10 to the
\* score and counted the hit for none of the colors 0..7
C12_NegativePegHit ==
    /\ Playing
    /\ \E i \in 1..hits : board[i] < 0
    /\ SumTo(hitPegCountsByColor, 7) < hits

\* C13: the first stage of balanceColors is idempotent: a list whose colors
\* are all below availableColors comes back with every colorIndex unchanged,
\* and the stage applied to its own result returns that result, for every
\* list of non-negative colors and availableColors 4, 6 and 8.
C13_ClampIdempotent ==
    query.fn = "balanced" =>
        /\ (\A i \in 1..Len(query.pegs) : query.pegs[i].colorIndex < query.availableColors)
              => answer = query.pegs
        /\ Balanced(answer, query.availableColors) = answer

\* the stage has reassigned two pegs of a list, one of them of a color
\* beyond the palette, and kept a peg that was in range
C13_ClampedTwo ==
    /\ query.fn = "balanced"
    /\ \E i, j, k \in 1..Len(answer) :
          /\ i # j
          /\ query.pegs[i].colorIndex >= 8
          /\ query.pegs[j].colorIndex >= query.availableColors
          /\ query.pegs[k].colorIndex < query.availableColors
          /\ answer[i] # query.pegs[i]
          /\ answer[j] # query.pegs[j]

\* C14: selectRandomPatternsForLevel(available, count, level) returns count
\* pairwise distinct names whenever the pool holds at least count distinct
\* names of positive weight, and a name is returned twice only when every
\* name of positive weight had been selected before.
C14_DistinctPatterns ==
    query.fn = "selectRandomPatternsForLevel" =>
        LET weighted == { p \in { query.availablePatterns[i] :
                                    i \in 1..Len(query.availablePatterns) } :
                            PatternWeight(p, query.level) > 0 }
        IN  /\ Cardinality(weighted) >= query.count =>
                  /\ Len(answer) = query.count
                  /\ \A i, j \in 1..Len(answer) : i # j => answer[i] # answer[j]
            /\ \A i, j \in 1..Len(answer) :
                  (i < j /\ answer[i] = answer[j]) =>
                      weighted \subseteq { answer[k] : k \in 1..(j - 1) }

\* two patterns asked of a pool of three names, and the same name returned
\* for both
C14_RepeatedOfThree ==
    /\ query.fn = "selectRandomPatternsForLevel"
    /\ query.count = 2
    /\ Len(query.availablePatterns) = 3
    /\ Len(answer) = 2
    /\ answer[1] = answer[2]

\* C15: at level 3 the two or three patterns generateAdvancedLevel has
\* rendered through generateProceduralLevel are pairwise distinct and each of
\* a difficulty in 2 .. 6 (level 3 always offers three such patterns).
C15_AdvancedPatterns ==
    (levelNumber = 3 /\ rendered # << >>) =>
        /\ Len(rendered) \in { 2, 3 }
        /\ \A k \in 1..Len(rendered) : patternDifficulty(rendered[k].pattern) \in 2..6
        /\ \A j, k \in 1..Len(rendered) : j # k => rendered[j].pattern # rendered[k].pattern

\* level 3 has rendered the same pattern into both of its two sections
C15_SamePatternTwice ==
    /\ levelNumber = 3
    /\ Len(rendered) = 2
    /\ rendered[1].pattern = rendered[2].pattern
    /\ patternDifficulty(rendered[1].pattern) \in 2..6

Divided == query.fn = "divideCanvasIntoSections"
\* the strategy the draws of a call with count >= 3 choose
DivisionType == RandInt(Rand(query.seed, 0), 3)
\* the sections the organic strategy holds after k splits
RECURSIVE SplitSteps(_)
SplitSteps(k) ==
    IF k = 0 THEN << Section(margin, playAreaTop, playableWidth, playAreaHeight) >>
    ELSE SplitLargest(SplitSteps(k - 1), Rand(query.seed, k))

\* C16: divideCanvasIntoSections(count) returns exactly count sections for
\* count 1 .. 4 under every strategy; in the organic strategy each split
\* raises the number of sections by exactly one, so the subdivision stops at
\* count sections and the trim loop removes none.
C16_ExactlyCount ==
    (Divided /\ query.count \in 1..4) =>
        /\ Len(answer) = query.count
        /\ (query.count >= 3 /\ DivisionType = 2) =>
              /\ \A k \in 0..(query.count - 1) : Len(SplitSteps(k)) = k + 1
              /\ LET split == OrganicSplit(SplitSteps(0), query.count, query.seed, 1)
                 IN  /\ split = SplitSteps(query.count - 1)
                     /\ TrimSmallest(split, query.count) = split

\* four sections out of the organic strategy
C16_OrganicFour ==
    /\ Divided
    /\ query.count = 4
    /\ DivisionType = 2
    /\ Len(answer) = 4

\* the rectangles of two sections share an area
Overlaps(a, b) ==
    /\ a.x < b.x + b.width
    /\ b.x < a.x + a.width
    /\ a.y < b.y + b.height
    /\ b.y < a.y + a.height

\* C17: the rectangles (rotation aside) divideCanvasIntoSections(count)
\* returns are pairwise non-overlapping for every count and strategy, the
\* jittered grid included.
C17_Disjoint ==
    Divided =>
        \A i, j \in 1..Len(answer) : i < j => ~Overlaps(answer[i], answer[j])

\* two cells of a jittered grid overlap
C17_GridCellsOverlap ==
    /\ Divided
    /\ query.count >= 3
    /\ DivisionType = 0
    /\ \E i, j \in 1..Len(answer) : i < j /\ Overlaps(answer[i], answer[j])

\* the list createOverlappingSections returned to generateProceduralLevel in
\* the running call
SectionsMade == createOverlappingSections(Len(rendered), currentLevelNumber, seed, 0).secs

\* C18: on a level above 7 every section of the list
\* createOverlappingSections returns, the min(3, floor(level/4)) appended
\* ones included, is the section of one generatePatternInSection call of
\* generateProceduralLevel.
C18_EverySectionRendered ==
    (levelNumber > 7 /\ rendered # << >>) =>
        \A i \in 1..Len(SectionsMade) :
            \E k \in 1..Len(rendered) : rendered[k].section = SectionsMade[i]

\* level 8: four patterns rendered into the four base sections, and the
\* two appended sections passed to no generatePatternInSection call
C18_AppendedUnused ==
    /\ levelNumber = 8
    /\ Len(rendered) = 4
    /\ Len(SectionsMade) = 6
    /\ \A k \in 1..4 : rendered[k].section = SectionsMade[k]
    /\ \A i \in 5..6 : \A k \in 1..4 : rendered[k].section # SectionsMade[i]

\* the running count of color c when the first stage of balanceColors
\* reaches peg i: the pegs of the list given that have color c, and the pegs
\* before i that were out of range and went to c
RunningCount(c, i) ==
    Cardinality({ j \in 1..Len(query.pegs) : query.pegs[j].colorIndex = c })
      + Cardinality({ j \in 1..(i - 1) :
                        /\ query.pegs[j].colorIndex >= query.availableColors
                        /\ answer[j].colorIndex = c })

\* C19: the first stage of balanceColors goes through the pegs in list
\* order with running counts that start from the counts of the in-range
\* pegs: a peg whose colorIndex is not below availableColors goes to the
\* available color of the smallest running count at that moment, the lowest
\* index on ties, and counts for it from then on; a peg in range keeps its
\* color and place; afterwards every colorIndex is below availableColors.
C19_ClampByRunningCount ==
    query.fn = "balanced" =>
        /\ Len(answer) = Len(query.pegs)
        /\ \A i \in 1..Len(answer) :
              /\ answer[i].colorIndex < query.availableColors
              /\ answer[i].x = query.pegs[i].x /\ answer[i].y = query.pegs[i].y
              /\ IF query.pegs[i].colorIndex < query.availableColors
                 THEN answer[i].colorIndex = query.pegs[i].colorIndex
                 ELSE \A c \in 0..(query.availableColors - 1) :
                         \/ RunningCount(answer[i].colorIndex, i) < RunningCount(c, i)
                         \/ /\ RunningCount(answer[i].colorIndex, i) = RunningCount(c, i)
                            /\ answer[i].colorIndex <= c

\* three pegs out of range went to three different colors, the first one to
\* a color above 0 because color 0 had a peg in range
C19_SpreadOverColors ==
    /\ query.fn = "balanced"
    /\ Len(answer) = 4
    /\ query.pegs[1].colorIndex = 0
    /\ \A i \in 2..4 : query.pegs[i].colorIndex >= query.availableColors
    /\ answer[2].colorIndex = 1
    /\ answer[3].colorIndex = 2
    /\ answer[4].colorIndex = 3

Ensured == query.fn = "ensureMinimumColorCounts"

\* C20: the cyan special case of ensureMinimumColorCounts is confined to
\* level 3 and color 5. On level 3 color 5 is raised first, to
\* max(3, floor(5 - 0.3)) + 2 = 6 pegs, no peg of color 5 is given to another
\* color, and a list of at least 6 pegs comes back with at least 6 pegs of
\* color 5; on every other level color 5 has the minimum of every other
\* color and gives pegs as every other color does.
C20_CyanOnLevelThreeOnly ==
    /\ AdjustedMinimum(5, 3) = 6
    /\ \A n \in Levels \ { 3 }, c \in 0..7 : AdjustedMinimum(5, n) = AdjustedMinimum(c, n)
    /\ (Ensured /\ query.level = 3) =>
          /\ \A i \in 1..Len(answer) :
                query.pegs[i].colorIndex = 5 => answer[i].colorIndex = 5
          /\ Len(query.pegs) >= 6 => CountColor(answer, 5) >= 6
          /\ answer = RaiseColors(RaiseColor(query.pegs, 5, 6, 3), << 0, 1, 2, 3, 4 >>, 6, 3)
    /\ (Ensured /\ query.level # 3) =>
          \A c \in 0..4 :
              CountColor(query.pegs, 5) > 0 => 5 \in AnyColor(query.pegs, c, query.level)

\* on level 3 a list without a peg of color 5 came back with 6 of them
C20_SixCyanMade ==
    /\ Ensured
    /\ query.level = 3
    /\ CountColor(query.pegs, 5) = 0
    /\ CountColor(answer, 5) = 6

\* on level 4 a peg of color 5 was given to another color
C20_CyanGivenOnLevelFour ==
    /\ Ensured
    /\ query.level = 4
    /\ \E i \in 1..Len(answer) :
          query.pegs[i].colorIndex = 5 /\ answer[i].colorIndex # 5

\* ---------------------------------------------------------------- C21
\* the pegs the slots holding a pattern name contribute to a direct call of
\* generateProceduralLevel
RECURSIVE SlottedPegs(_)
SlottedPegs(k) ==
    IF k = 0 THEN << >>
    ELSE SlottedPegs(k - 1) \o
         applyProceduralNoise(
             generatePatternInSection(PatternFunc(query.selectedPatterns[k]),
                                      rendered[k].section, pegSpacing, levelNumber,
                                      currentLevelNumber, seed, PatternDraws(k)),
             levelNumber, pegSpacing, seed, PatternDraws(k) + 1000)

\* C21: a call of generateProceduralLevel whose pool is empty or yields
\* fewer names than patternCount runs to its return: a slot without a name
\* gets the undefined function, makes no create call and adds no peg, the
\* random pegs are appended behind the pattern pegs, and the list returned
\* has passed removePegOverlaps with pegSpacing * 0.8 and removeEdgePegs.
C21_ShortPoolNoFault ==
    (query.fn = "generateProceduralLevel" /\ pc # "idle") =>
        /\ Len(rendered) = query.patternCount
        /\ Len(query.selectedPatterns) <= query.patternCount
        /\ \A k \in 1..Len(rendered) :
               k > Len(query.selectedPatterns) =>
                   /\ rendered[k].pattern = "undefined"
                   /\ rendered[k].func.fn = "undefined"
                   /\ rendered[k].call = NoCall
        /\ pc = "random" => pegs = SlottedPegs(Len(query.selectedPatterns))
        /\ pc = "filter" =>
               /\ Len(loc.input) > Len(pegs)
               /\ SubSeq(loc.input, 1, Len(pegs)) = pegs
        /\ pc = "checkMinimum" =>
               /\ lastFilter = Times(pegSpacing, 8)
               /\ pegs = removeEdgePegs(pegs, pegRadius * 2)
               /\ \A i \in 1..Len(pegs) :
                      ~TooClose(SubSeq(pegs, 1, i - 1), pegs[i].x, pegs[i].y, lastFilter)

\* a call with fewer names than slots has returned a list with pegs
C21_ShortPoolReturned ==
    /\ query.fn = "generateProceduralLevel"
    /\ pc = "checkMinimum"
    /\ Len(query.selectedPatterns) < query.patternCount
    /\ Len(query.selectedPatterns) > 0
    /\ Len(pegs) > 0

\* ---------------------------------------------------------------- C22
\* C22 as stated: between calls every field of the generator has the value
\* the constructor gave it, so currentLevelNumber, which the constructor
\* leaves unset, is unset.
C22_FieldsAsConstructed ==
    pc = "idle" => currentLevelNumber = 0

\* C22, amended: currentLevelNumber is the one field written after
\* construction; it changes only where a generateLevel call starts, to the
\* argument of that call, and keeps that value after the call has returned,
\* so that it equals the level of the game while the level is played.
C22_OnlyCurrentLevelNumberKept ==
    [][ /\ currentLevelNumber' # currentLevelNumber =>
              (pc = "idle" /\ pc' = "assemble" /\ currentLevelNumber' = levelNumber')
        /\ gpc' = "play" => currentLevelNumber' = currentLevel' ]_vars

\* the second generateLevel call of a run has returned
C22_SecondLevelKept ==
    /\ pc = "idle"
    /\ gpc = "play"
    /\ currentLevel = 2
    /\ currentLevelNumber = 2

\* ---------------------------------------------------------------- C23
\* result is the greedy minDistance-separated subsequence of input: the pegs
\* of input at a set S of positions, in their order, where S holds position
\* 1, no two pegs of S are closer than minDistance, and every position
\* outside S is closer than minDistance to an earlier position of S
Greedy(input, result, minDistance) ==
    \E S \in SUBSET (1..Len(input)) :
        /\ LET idx == SelectSeq([ k \in 1..Len(input) |-> k ], LAMBDA k : k \in S)
           IN  result = [ j \in 1..Len(idx) |-> input[idx[j]] ]
        /\ Len(input) > 0 => 1 \in S
        /\ \A a \in S, b \in S :
               a # b => ~Closer(input[a].x, input[a].y, input[b].x, input[b].y, minDistance)
        /\ \A k \in (1..Len(input)) \ S :
               \E j \in S : /\ j < k
                            /\ Closer(input[j].x, input[j].y, input[k].x, input[k].y,
                                      minDistance)

\* C23: removePegOverlaps(pegs, d) returns the greedy d-separated
\* subsequence of pegs (input order kept, first peg kept, no two pegs closer
\* than d, a peg dropped only for an earlier kept peg closer than d), and
\* removePegOverlaps of that result with the same d returns it unchanged.
C23_GreedySeparated ==
    (query.fn = "removePegOverlaps" /\ pc = "filter" /\ loc.i > Len(loc.input)) =>
        IF query.pass = 1 THEN Greedy(query.pegs, loc.result, query.minDistance)
        ELSE loc.result = query.first /\ loc.input = query.first

\* the second pass has ended on a result from which the first pass had
\* dropped a peg that follows a kept peg it is not close to
C23_DroppedBehindFarPeg ==
    /\ query.fn = "removePegOverlaps"
    /\ pc = "filter"
    /\ loc.i > Len(loc.input)
    /\ query.pass = 2
    /\ Len(query.first) >= 2
    /\ Len(query.first) < Len(query.pegs)
    /\ \E k \in 3..Len(query.pegs) :
           /\ \A j \in 1..Len(query.first) : query.first[j] # query.pegs[k]
           /\ ~Closer(query.pegs[k - 1].x, query.pegs[k - 1].y, query.pegs[k].x,
                      query.pegs[k].y, query.minDistance)

\* ---------------------------------------------------------------- C24
\* the pegs made so far by the running generateLevel call, before
\* balanceColors: the list under construction and the lists of the loop in
\* progress
Provisional ==
    pegs \o (IF loc.loop \in { "random", "filler" } THEN loc.placed
             ELSE IF loc.loop = "filter" THEN loc.input \o loc.result
             ELSE << >>)

\* C24: whatever generateLevel calls came before, while generateLevel(n)
\* runs currentLevelNumber is n, and every peg its pattern functions, its
\* random pattern and its filler routine have made carries a colorIndex in
\* 0 .. getAvailableColors(n) - 1.
C24_ProvisionalColorsOfLevel ==
    pc \notin { "idle", "done" } =>
        /\ currentLevelNumber = levelNumber
        /\ \A i \in 1..Len(Provisional) :
               Provisional[i].colorIndex \in 0..(getAvailableColors(levelNumber) - 1)

\* a level of four colors is about to be balanced and its pegs, some made by
\* createGridPattern and some by createFillerPegs or createRandomPattern,
\* use the highest of the four colors
C24_FourColorsUsed ==
    /\ pc = "balance"
    /\ getAvailableColors(levelNumber) = 4
    /\ \E i \in 1..Len(pegs) : pegs[i].colorIndex = 3

C26_NeverFewer ==
    (query.fn = "ensureMinimumPegs" /\ pc = "balance") => Len(pegs) >= Len(query.pegs)

\* no two pegs of the list are closer than minDistance and none is nearer
\* than minEdgeDistance to an edge
Clear(list, minDistance, minEdgeDistance) ==
    /\ \A i \in 1..Len(list) : ~TooClose(SubSeq(list, 1, i - 1), list[i].x, list[i].y,
                                         minDistance)
    /\ removeEdgePegs(list, minEdgeDistance) = list

\* C26, amended: given a list shorter than minCount whose pegs are at least
\* 0.8 times the spacing apart and at least 2 * pegRadius inside the edges,
\* ensureMinimumPegs returns a list that starts with the pegs given, in
\* their order, so never a shorter one.
C26_ClearListKept ==
    (/\ query.fn = "ensureMinimumPegs"
     /\ pc = "balance"
     /\ Clear(query.pegs, Times(LevelSpacing(levelNumber), 8), pegRadius * 2)) =>
        /\ Len(pegs) >= Len(query.pegs)
        /\ SubSeq(pegs, 1, Len(query.pegs)) = query.pegs

\* a clear list of several pegs has come back longer, after a retry
C26_ClearListFilled ==
    /\ query.fn = "ensureMinimumPegs"
    /\ pc = "balance"
    /\ Len(query.pegs) >= 2
    /\ Clear(query.pegs, Times(LevelSpacing(levelNumber), 8), pegRadius * 2)
    /\ Len(pegs) > Len(query.pegs)
    /\ pegSpacing < LevelSpacing(levelNumber)

\* C27: in every reachable state of the game, whatever launches, purchases,
\* completions, continues, restarts and skips came before, the balls of the
\* level and the balls of the run are the same number, between 0 and 10.
C27_BallCounters ==
    /\ 0 <= ballsRemaining
    /\ ballsRemaining = totalRunBalls
    /\ totalRunBalls <= 10

\* on a level after the first, with balls launched before, a purchase of two
\* balls has been cut to the one ball that fills the run to 10
C27_PurchaseFilledRun ==
    /\ query.fn = "purchaseBalls"
    /\ answer = TRUE
    /\ currentLevel > 1
    /\ query.count = 2
    /\ query.totalRunBalls = 9
    /\ totalRunBalls = 10

\* C28: in every reachable state the shop is open only on a completed level
\* and never when the game is over, however the shop timer, the skip timer,
\* the game loop, the clicks and the key presses interleave.
C28_ShopOnlyWhenCompleted ==
    shopActive => (levelCompleted /\ ~gameOver)

\* the shop has opened on a level that was entered by a skip and is not
\* completed: the level before was completed while the skip was pending
C28_ShopOnSkippedLevel ==
    /\ gpc = "play"
    /\ shopActive
    /\ ~levelCompleted
    /\ ~gameOver
    /\ currentLevel > 1
    /\ hits = 0
    /\ score > 0

\* the mousedown handler reaches its launch branch and launches
LaunchEnabled ==
    ballsRemaining > 0 /\ ~levelCompleted /\ ~shopActive /\ ~gameOver

\* the mousedown handler reaches the buttons of the shop
ContinueEnabled ==
    shopActive /\ ~gameOver

\* the next frame of gameLoop does not complete the level and sets gameOver
GameOverNextFrame ==
    /\ ballsRemaining <= 0
    /\ activeBalls = 0
    /\ ~levelCompleted
    /\ ~AllColorsHitThreshold(pegCountsByColor, hitPegCountsByColor, colorThresholds)
    /\ ~shopActive
    /\ totalRunBalls <= 0

C30_PurchaseAllOrNothing ==
    /\ currency >= 0
    /\ query.fn = "purchaseBalls" =>
           LET k == Min(query.count, 10 - query.totalRunBalls)
           IN  IF answer = TRUE
               THEN /\ k >= 1
                    /\ totalRunBalls = query.totalRunBalls + k
                    /\ ballsRemaining = query.ballsRemaining + k
                    /\ currency = query.currency - 100 * k
               ELSE /\ answer = FALSE
                    /\ currency = query.currency
                    /\ totalRunBalls = query.totalRunBalls
                    /\ ballsRemaining = query.ballsRemaining
                    /\ \/ query.currency < 100 * query.count
                       \/ query.totalRunBalls >= 10

\* a purchase of two balls has been refused although the currency pays for
\* one and the run has room for it
C30_RefusedShortOfCount ==
    /\ query.fn = "purchaseBalls"
    /\ answer = FALSE
    /\ query.count = 2
    /\ query.currency >= 100
    /\ query.currency < 200
    /\ query.totalRunBalls < 10
    /\ currency = query.currency

====
